---------------------------- MODULE Spec2Model ----------------------------
(***************************************************************************)
(* A model of the point-cloud core of epoint (crate epoint-core): the      *)
(* typed columnar store PointData, the aggregate PointCloud built on it,   *)
(* the coordinate-frame resolution PointCloud::resolve_to_frame, and the   *)
(* octree PointCloudOctree built from an aggregate.                        *)
(*                                                                         *)
(* A polars DataFrame is modelled as a record                              *)
(*     [names |-> <<column names, in column order>>,                       *)
(*      dtype |-> [column name -> data type],                              *)
(*      rows  |-> <<one function column name -> value per row>>]           *)
(* so that column order, column types, row order and every cell are part   *)
(* of the value and two data frames are equal exactly when all of them     *)
(* agree.                                                                  *)
(***************************************************************************)
EXTENDS Integers, Sequences, FiniteSets, TLC

(***************************************************************************)
(* Bounds of the model.                                                    *)
(***************************************************************************)
\* the largest number of rows of a table handed to a constructor
MaxRows == 2
\* the number of operations applied to an aggregate after its construction
MaxSteps == 2

(***************************************************************************)
(* Generic helpers.                                                        *)
(***************************************************************************)
Range(s) == {s[i] : i \in DOMAIN s}

\* the null cell of a numeric column (polars None)
NullNum == -99

\* Option<FrameId>::None
NoFrame == "none"

\* Option<DateTime<Utc>>::None is <<>>, Some(t) is <<seconds, nanoseconds>>
NoTimestamp == <<>>

(***************************************************************************)
(* The column registry: point_data.rs, PointDataColumnType.                *)
(***************************************************************************)
COLUMN_NAME_X_STR == "x"
COLUMN_NAME_Y_STR == "y"
COLUMN_NAME_Z_STR == "z"
COLUMN_NAME_ID_STR == "id"
COLUMN_NAME_FRAME_ID_STR == "frame_id"
COLUMN_NAME_TIMESTAMP_SEC_STR == "timestamp_sec"
COLUMN_NAME_TIMESTAMP_NANOSEC_STR == "timestamp_nanosec"
COLUMN_NAME_INTENSITY_STR == "intensity"

SensorTranslationNames ==
    {"sensor_translation_x", "sensor_translation_y", "sensor_translation_z"}

SensorRotationNames ==
    {"sensor_rotation_x", "sensor_rotation_y", "sensor_rotation_z",
     "sensor_rotation_w"}

ColorNames == {"color_red", "color_green", "color_blue"}

SphericalNames == {"spherical_azimuth", "spherical_elevation", "spherical_range"}

OctantIndexNames ==
    {"octant_index_level", "octant_index_x", "octant_index_y", "octant_index_z"}

\* the names of the 26 variants of PointDataColumnType (as_str)
PointDataColumnType ==
    {COLUMN_NAME_X_STR, COLUMN_NAME_Y_STR, COLUMN_NAME_Z_STR, COLUMN_NAME_ID_STR,
     COLUMN_NAME_FRAME_ID_STR, COLUMN_NAME_TIMESTAMP_SEC_STR,
     COLUMN_NAME_TIMESTAMP_NANOSEC_STR, COLUMN_NAME_INTENSITY_STR,
     "point_source_id"}
    \cup SensorTranslationNames \cup SensorRotationNames \cup ColorNames
    \cup SphericalNames \cup OctantIndexNames

\* PointDataColumnType::data_frame_data_type
data_frame_data_type(c) ==
    CASE c \in {"x", "y", "z"} -> "Float64"
      [] c = "id" -> "UInt64"
      [] c = "frame_id" -> "Categorical"
      [] c = "timestamp_sec" -> "Int64"
      [] c = "timestamp_nanosec" -> "UInt32"
      [] c = "intensity" -> "Float32"
      [] c \in SensorTranslationNames -> "Float64"
      [] c \in SensorRotationNames -> "Float64"
      [] c \in ColorNames -> "UInt16"
      [] c \in SphericalNames -> "Float64"
      [] c = "octant_index_level" -> "UInt32"
      [] c \in {"octant_index_x", "octant_index_y", "octant_index_z"} -> "UInt64"
      [] c = "point_source_id" -> "UInt16"

\* impl FromStr for PointDataColumnType: TRUE when from_str(s) is Ok.  Its
\* match has no arm for the sensor-rotation and the octant-index names.
from_str(s) ==
    s \in ({"x", "y", "z", "id", "frame_id", "timestamp_sec", "timestamp_nanosec",
            "intensity", "point_source_id"}
           \cup SensorTranslationNames \cup ColorNames \cup SphericalNames)

(***************************************************************************)
(* Data frames.                                                            *)
(***************************************************************************)
height(df) == Len(df.rows)

contains_column(df, c) == c \in Range(df.names)

\* DataFrame::is_empty: no rows or no columns
is_empty(df) == height(df) = 0 \/ Len(df.names) = 0

\* DataFrame::drop / drop_in_place of a column that exists
drop(df, c) ==
    LET keep == SelectSeq(df.names, LAMBDA n : n # c)
    IN  [names |-> keep,
         dtype |-> [n \in Range(keep) |-> df.dtype[n]],
         rows  |-> [i \in DOMAIN df.rows |-> [n \in Range(keep) |-> df.rows[i][n]]]]

\* DataFrame::with_column: replaces the column of that name in place, or
\* appends it; values has one entry per row
with_column(df, c, type, values) ==
    LET nn == IF contains_column(df, c) THEN df.names ELSE Append(df.names, c)
    IN  [names |-> nn,
         dtype |-> [n \in Range(nn) |-> IF n = c THEN type ELSE df.dtype[n]],
         rows  |-> [i \in DOMAIN df.rows |->
                      [n \in Range(nn) |-> IF n = c THEN values[i] ELSE df.rows[i][n]]]]

\* DataFrame::filter by a boolean mask with one entry per row
RECURSIVE filter_rows(_, _)
filter_rows(rows, mask) ==
    IF rows = <<>> THEN <<>>
    ELSE LET rest == filter_rows(Tail(rows), Tail(mask))
         IN  IF Head(mask) THEN <<Head(rows)>> \o rest ELSE rest

filter(df, mask) == [df EXCEPT !.rows = filter_rows(df.rows, mask)]

(***************************************************************************)
(* Results of fallible operations: Result<_, Error> and a panic.           *)
(***************************************************************************)
Ok == [status |-> "Ok", error |-> "", column |-> ""]
Err(e) == [status |-> "Err", error |-> e, column |-> ""]
TypeMismatch(c) == [status |-> "Err", error |-> "TypeMismatch", column |-> c]
Panic(msg) == [status |-> "Panic", error |-> msg, column |-> ""]
\* Ok(None) of the filters that return an Option
OkNone == [status |-> "OkNone", error |-> "", column |-> ""]

(***************************************************************************)
(* PointData::new, point_data.rs.                                          *)
(***************************************************************************)
\* the recognized columns of df whose type is not the registered one, in
\* column order
mistyped_columns(df) ==
    SelectSeq(df.names,
              LAMBDA n : from_str(n) /\ df.dtype[n] # data_frame_data_type(n))

PointData_new(df) ==
    IF is_empty(df) THEN Err("NoData")
    ELSE IF mistyped_columns(df) # <<>> THEN TypeMismatch(Head(mistyped_columns(df)))
    ELSE Ok

(***************************************************************************)
(* PointDataColumns::get_as_data_frame, point_data_columns.rs.  A          *)
(* PointDataColumns value is a record of vectors; an optional vector is    *)
(* [some |-> BOOLEAN, v |-> vector].  A point is <<x, y, z>>, a timestamp  *)
(* <<seconds, nanoseconds>>, a color <<red, green, blue>>.                 *)
(***************************************************************************)
RECURSIVE with_columns(_, _)
\* DataFrame::new(columns): cols is a sequence of [name, type, values]
with_columns(df, cols) ==
    IF cols = <<>> THEN df
    ELSE with_columns(with_column(df, Head(cols).name, Head(cols).type, Head(cols).values),
                      Tail(cols))

Component(vec, k) == [i \in DOMAIN vec |-> vec[i][k]]

get_as_data_frame(c) ==
    LET n == Len(c.point)
        base == [names |-> <<>>, dtype |-> <<>>, rows |-> [i \in 1..n |-> <<>>]]
        series(name, type, values) == [name |-> name, type |-> type, values |-> values]
        xyz == <<series("x", "Float64", Component(c.point, 1)),
                 series("y", "Float64", Component(c.point, 2)),
                 series("z", "Float64", Component(c.point, 3))>>
        id == IF c.id.some THEN <<series("id", "UInt64", c.id.v)>> ELSE <<>>
        frame_id == IF c.frame_id.some
                    THEN <<series("frame_id", "Categorical", c.frame_id.v)>> ELSE <<>>
        timestamp == IF c.timestamp.some
                     THEN <<series("timestamp_sec", "Int64", Component(c.timestamp.v, 1)),
                            series("timestamp_nanosec", "UInt32",
                                   Component(c.timestamp.v, 2))>>
                     ELSE <<>>
        intensity == IF c.intensity.some
                     THEN <<series("intensity", "Float32", c.intensity.v)>> ELSE <<>>
        beam_origin == IF c.beam_origin.some
                       THEN <<series("sensor_translation_x", "Float64",
                                     Component(c.beam_origin.v, 1)),
                              series("sensor_translation_y", "Float64",
                                     Component(c.beam_origin.v, 2)),
                              series("sensor_translation_z", "Float64",
                                     Component(c.beam_origin.v, 3))>>
                       ELSE <<>>
        color == IF c.color.some
                 THEN <<series("color_red", "UInt16", Component(c.color.v, 1)),
                        series("color_green", "UInt16", Component(c.color.v, 2)),
                        series("color_blue", "UInt16", Component(c.color.v, 3))>>
                 ELSE <<>>
    IN  with_columns(base, xyz \o id \o frame_id \o timestamp \o intensity
                           \o beam_origin \o color)

(***************************************************************************)
(* PointCloud::new and PointCloud::from_data_frame, point_cloud.rs.        *)
(***************************************************************************)
\* a constructor that validates the store before it looks at the frame ids
PointCloud_from_data_frame_store_first(df, info_frame_id) ==
    IF PointData_new(df).status # "Ok" THEN PointData_new(df)
    ELSE IF contains_column(df, "frame_id") /\ info_frame_id # NoFrame
         THEN Err("MultipleFrameIdDefinitions")
    ELSE Ok

PointCloud_from_data_frame(df, info_frame_id) ==
    IF contains_column(df, "frame_id") /\ info_frame_id # NoFrame
    THEN Err("MultipleFrameIdDefinitions")
    ELSE PointData_new(df)

PointCloud_new(columns_, info_frame_id) ==
    LET df == get_as_data_frame(columns_)
    IN  IF contains_column(df, "frame_id") /\ info_frame_id # NoFrame
        THEN Err("MultipleFrameIdDefinitions")
        ELSE PointData_new(df)

(***************************************************************************)
(* The transform graph (crate ecoord, consumed through its interface):     *)
(* get_isometry(graph, source, target, timestamp) is an isometry, or a     *)
(* path-not-found error, or a time-out-of-range error.  A graph gives      *)
(* each of its frames a pose in a common root frame: a rotation about the  *)
(* z axis by 0 (rot = 1) or 180 degrees (rot = -1) and an offset along x.  *)
(* The pose of a frame in `dynamic` is sampled for the seconds             *)
(* first..last and moves by one unit per second.                           *)
(***************************************************************************)
IsometryError(e) == [ok |-> FALSE, error |-> e, rot |-> 1, trans |-> 0]

get_isometry(tree, target_frame_id, frame_id, timestamp) ==
    LET timed(f) == f \in tree.dynamic /\ timestamp # NoTimestamp
        off(f) == tree.off[f] + (IF timed(f) THEN timestamp[1] ELSE 0)
    IN  IF frame_id \notin tree.frames \/ target_frame_id \notin tree.frames
        THEN IsometryError("PathNotFound")
        ELSE IF (timed(frame_id) \/ timed(target_frame_id))
                /\ (timestamp[1] < tree.first \/ timestamp[1] > tree.last)
        THEN IsometryError("TimeOutOfRange")
        ELSE [ok |-> TRUE, error |-> "",
              rot |-> tree.rot[target_frame_id] * tree.rot[frame_id],
              trans |-> tree.rot[target_frame_id] * (off(frame_id) - off(target_frame_id))]

\* isometry * p for a point <<x, y, z>>
transform_point(isometry, p) ==
    <<isometry.rot * p[1] + isometry.trans, isometry.rot * p[2], p[3]>>

\* the Hamilton product a * b of quaternions <<i, j, k, w>>
quaternion_product(a, b) ==
    <<a[4] * b[1] + a[1] * b[4] + a[2] * b[3] - a[3] * b[2],
      a[4] * b[2] - a[1] * b[3] + a[2] * b[4] + a[3] * b[1],
      a[4] * b[3] + a[1] * b[2] - a[2] * b[1] + a[3] * b[4],
      a[4] * b[4] - a[1] * b[1] - a[2] * b[2] - a[3] * b[3]>>

\* isometry.rotation as a unit quaternion
rotation_quaternion(isometry) ==
    IF isometry.rot = 1 THEN <<0, 0, 0, 1>> ELSE <<0, 0, 1, 0>>

(***************************************************************************)
(* Point stores: the accessors and in-place updates of PointData that      *)
(* resolution uses, point_data.rs.                                         *)
(***************************************************************************)
contains_frame_id_column(df) == contains_column(df, "frame_id")
contains_timestamp_sec_column(df) == contains_column(df, "timestamp_sec")
contains_timestamp_nanosec_column(df) == contains_column(df, "timestamp_nanosec")
contains_id_column(df) == contains_column(df, "id")

contains_sensor_translation(df) ==
    \A c \in SensorTranslationNames : contains_column(df, c)

contains_sensor_rotation(df) ==
    \A c \in SensorRotationNames : contains_column(df, c)

\* get_x_values, get_y_values, get_z_values and the unwraps of
\* get_all_points succeed: the three columns exist and hold no null
points_readable(df) ==
    /\ \A c \in {"x", "y", "z"} : contains_column(df, c)
    /\ \A i \in DOMAIN df.rows : \A c \in {"x", "y", "z"} : df.rows[i][c] # NullNum

get_all_points(df) ==
    [i \in DOMAIN df.rows |-> <<df.rows[i]["x"], df.rows[i]["y"], df.rows[i]["z"]>>]

get_all_sensor_translations(df) ==
    [i \in DOMAIN df.rows |->
        <<df.rows[i]["sensor_translation_x"], df.rows[i]["sensor_translation_y"],
          df.rows[i]["sensor_translation_z"]>>]

\* nalgebra's Quaternion::new(w, i, j, k): the scalar part is its first
\* argument; a quaternion is held as <<i, j, k, w>>
Quaternion_new(w, i, j, k) == <<i, j, k, w>>

\* get_all_sensor_rotations hands the values of the columns
\* sensor_rotation_x, _y, _z, _w to Quaternion::new in this order
get_all_sensor_rotations(df) ==
    [i \in DOMAIN df.rows |->
        Quaternion_new(df.rows[i]["sensor_rotation_x"], df.rows[i]["sensor_rotation_y"],
                       df.rows[i]["sensor_rotation_z"], df.rows[i]["sensor_rotation_w"])]

\* DataFrame::replace of an existing column: same place, new values
replace(df, c, values) == with_column(df, c, df.dtype[c], values)

\* the three replace calls of update_points_in_place, one after the other:
\* a replace of a column that does not exist returns the error with the
\* earlier replacements done
replace_points(df, points) ==
    IF ~contains_column(df, "x") THEN [result |-> Err("Polars"), df |-> df]
    ELSE IF ~contains_column(df, "y")
         THEN [result |-> Err("Polars"), df |-> replace(df, "x", Component(points, 1))]
    ELSE IF ~contains_column(df, "z")
         THEN [result |-> Err("Polars"),
               df |-> replace(replace(df, "x", Component(points, 1)),
                              "y", Component(points, 2))]
    ELSE [result |-> Ok,
          df |-> replace(replace(replace(df, "x", Component(points, 1)),
                                 "y", Component(points, 2)),
                         "z", Component(points, 3))]

\* an update_points_in_place that keeps the per-point frame column
update_points_in_place_keeps_frame_ids(df, points) ==
    IF Len(points) # height(df) THEN [result |-> Err("ShapeMismatch"), df |-> df]
    ELSE replace_points(df, points)

\* PointData::update_points_in_place: the per-point frame column is dropped,
\* then x, y and z are replaced
update_points_in_place(df, points) ==
    IF Len(points) # height(df) THEN [result |-> Err("ShapeMismatch"), df |-> df]
    ELSE replace_points(IF contains_column(df, "frame_id") THEN drop(df, "frame_id") ELSE df,
                        points)

update_sensor_translations_in_place(df, points) ==
    replace(replace(replace(df, "sensor_translation_x", Component(points, 1)),
                    "sensor_translation_y", Component(points, 2)),
            "sensor_translation_z", Component(points, 3))

update_sensor_rotations_in_place(df, rotations) ==
    replace(replace(replace(replace(df, "sensor_rotation_x", Component(rotations, 1)),
                            "sensor_rotation_y", Component(rotations, 2)),
                    "sensor_rotation_z", Component(rotations, 3)),
            "sensor_rotation_w", Component(rotations, 4))

\* the sensor translations of resolve_data_frame
resolve_sensor_translations(df, isometry) ==
    IF contains_sensor_translation(df)
    THEN update_sensor_translations_in_place(df,
            [i \in DOMAIN df.rows |->
                transform_point(isometry, get_all_sensor_translations(df)[i])])
    ELSE df

\* the sensor rotations of resolve_data_frame
resolve_sensor_rotations(df, isometry) ==
    IF contains_sensor_rotation(df)
    THEN update_sensor_rotations_in_place(df,
            [i \in DOMAIN df.rows |->
                quaternion_product(rotation_quaternion(isometry),
                                   get_all_sensor_rotations(df)[i])])
    ELSE df

\* resolve_data_frame after update_points_in_place returned u
resolve_sensor_poses(u, isometry) ==
    IF u.result.status # "Ok" THEN u
    ELSE [result |-> Ok,
          df |-> resolve_sensor_rotations(resolve_sensor_translations(u.df, isometry),
                                          isometry)]

\* resolve_data_frame after the lookup in the transform graph returned isometry
apply_isometry(df, isometry) ==
    IF ~isometry.ok THEN [result |-> Err(isometry.error), df |-> df]
    ELSE IF ~points_readable(df)
    THEN [result |-> Panic("column mandatory"), df |-> df]
    ELSE resolve_sensor_poses(
            update_points_in_place(df,
                [i \in DOMAIN df.rows |-> transform_point(isometry, get_all_points(df)[i])]),
            isometry)

\* PointData::resolve_data_frame: [result, df]; a failed lookup returns the
\* error before the store is touched
resolve_data_frame(df, tree, timestamp, frame_id, target_frame_id) ==
    apply_isometry(df, get_isometry(tree, target_frame_id, frame_id, timestamp))

(***************************************************************************)
(* PointCloud::resolve_to_frame, point_cloud.rs.                           *)
(***************************************************************************)
\* the values of the columns cols of one row, as a tuple
row_key(row, cols) == [k \in DOMAIN cols |-> row[cols[k]]]

RECURSIVE distinct_keys(_, _, _)
\* the distinct keys of rows, in order of first appearance
distinct_keys(rows, cols, seen) ==
    IF rows = <<>> THEN seen
    ELSE LET k == row_key(Head(rows), cols)
         IN  distinct_keys(Tail(rows), cols,
                           IF k \in Range(seen) THEN seen ELSE Append(seen, k))

\* a partition_by that keeps all rows in one partition
partition_by_nothing(df, cols) == <<df>>

\* DataFrame::partition_by(cols, include_key = true): one data frame per
\* distinct key, each with its rows in their original order
partition_by(df, cols) ==
    LET keys == distinct_keys(df.rows, cols, <<>>)
    IN  [g \in DOMAIN keys |->
            [df EXCEPT !.rows = SelectSeq(df.rows,
                                          LAMBDA r : row_key(r, cols) = keys[g])]]

\* the key under which a partition is put into the hash map: the frame id of
\* its first row, or the frame id of the info, and the timestamp of its first
\* row when both timestamp columns exist (get_all_timestamps is Ok)
partition_key(part, info_frame_id) ==
    <<IF contains_frame_id_column(part) THEN part.rows[1]["frame_id"] ELSE info_frame_id,
      IF contains_timestamp_sec_column(part) /\ contains_timestamp_nanosec_column(part)
      THEN <<part.rows[1]["timestamp_sec"], part.rows[1]["timestamp_nanosec"]>>
      ELSE NoTimestamp>>

\* collect() into a HashMap: of the partitions with one key the last one stays
hash_map_value(parts, info_frame_id, key) ==
    LET hits == {g \in DOMAIN parts : partition_key(parts[g], info_frame_id) = key}
    IN  parts[CHOOSE g \in hits : \A h \in hits : h <= g]

\* the orders in which a HashMap of these keys may be iterated
iteration_orders(keys) ==
    {o \in [1..Cardinality(keys) -> keys] : \A i, j \in DOMAIN o : o[i] = o[j] => i = j}

RECURSIVE lex_less(_, _, _)
\* row a sorts strictly before row b on the columns cols
lex_less(a, b, cols) ==
    IF cols = <<>> THEN FALSE
    ELSE \/ a[Head(cols)] < b[Head(cols)]
         \/ a[Head(cols)] = b[Head(cols)] /\ lex_less(a, b, Tail(cols))

RECURSIVE insert_sorted(_, _, _)
\* r put into the sorted rows after every row that does not sort after it
insert_sorted(sorted, r, cols) ==
    IF sorted = <<>> THEN <<r>>
    ELSE IF lex_less(r, Head(sorted), cols) THEN <<r>> \o sorted
    ELSE <<Head(sorted)>> \o insert_sorted(Tail(sorted), r, cols)

RECURSIVE sort_rows(_, _, _)
sort_rows(rows, cols, sorted) ==
    IF rows = <<>> THEN sorted
    ELSE sort_rows(Tail(rows), cols, insert_sorted(sorted, Head(rows), cols))

\* DataFrame::sort(cols, maintain_order = true): ascending and stable
sort(df, cols) == [df EXCEPT !.rows = sort_rows(df.rows, cols, <<>>)]

RECURSIVE resolve_partitions(_, _, _, _, _, _)
\* the closure of the map over the hash map, after resolve_data_frame returned
\* r for the partition Head(order): it panics if r is not Ok
resolved_partition(r, order, map, tree, target_frame_id, done, queries) ==
    IF r.result.status = "Err"
    THEN [result |-> Panic("error"), parts |-> done, queries |-> queries + 1,
          lookup_failed |-> r.result.error \in {"PathNotFound", "TimeOutOfRange"}]
    ELSE IF r.result.status = "Panic"
    THEN [result |-> r.result, parts |-> done, queries |-> queries + 1,
          lookup_failed |-> FALSE]
    ELSE resolve_partitions(Tail(order), map, tree, target_frame_id,
                            Append(done, r.df), queries + 1)

\* the map over the hash map, in the iteration order `order`: the resolved
\* partitions so far are `done`
resolve_partitions(order, map, tree, target_frame_id, done, queries) ==
    IF order = <<>> THEN [result |-> Ok, parts |-> done, queries |-> queries,
                          lookup_failed |-> FALSE]
    ELSE resolved_partition(
            resolve_data_frame(map[Head(order)], tree, Head(order)[2], Head(order)[1],
                               target_frame_id),
            order, map, tree, target_frame_id, done, queries)

RECURSIVE concat_rows(_)
concat_rows(parts) ==
    IF parts = <<>> THEN <<>> ELSE Head(parts).rows \o concat_rows(Tail(parts))

\* concat of the data frames of parts (not empty), which share their columns
concat(parts) == [Head(parts) EXCEPT !.rows = concat_rows(parts)]

\* the partitions of the store and the hash map built from them
resolve_partitions_of(df) ==
    LET partition_columns ==
            SelectSeq(<<"frame_id", "timestamp_sec", "timestamp_nanosec">>,
                      LAMBDA c : contains_column(df, c))
    IN  IF partition_columns = <<>> THEN <<df>> ELSE partition_by(df, partition_columns)

\* the keys of the hash map
partition_keys(parts, info_frame_id) ==
    {partition_key(parts[g], info_frame_id) : g \in DOMAIN parts}

resolve_map_keys(df, info_frame_id) ==
    partition_keys(resolve_partitions_of(df), info_frame_id)

\* the hash map of the partitions
hash_map(parts, info_frame_id) ==
    [k \in partition_keys(parts, info_frame_id) |-> hash_map_value(parts, info_frame_id, k)]

\* the canonical order of the merged store: by time, then by id
sort_by_id(df) == IF contains_column(df, "id") THEN sort(df, <<"id">>) ELSE df

resolve_sort(merged_again) ==
    sort_by_id(IF /\ contains_column(merged_again, "timestamp_sec")
                  /\ contains_column(merged_again, "timestamp_nanosec")
                  /\ ~contains_column(merged_again, "frame_id")
               THEN sort(merged_again, <<"timestamp_sec", "timestamp_nanosec">>)
               ELSE merged_again)

Outcome(result, df, info_frame_id, queries, lookup_failed) ==
    [result |-> result, point_data |-> df, info |-> info_frame_id,
     queries |-> queries, lookup_failed |-> lookup_failed]

\* a resolve_to_frame that writes the partitions resolved so far back to the
\* store when a later partition fails
resolved_in_place(r, df, info_frame_id, target_frame_id) ==
    IF r.result.status # "Ok"
    THEN Outcome(r.result, IF r.parts = <<>> THEN [df EXCEPT !.rows = <<>>]
                           ELSE concat(r.parts),
                 info_frame_id, r.queries, r.lookup_failed)
    ELSE IF r.parts = <<>>
    THEN Outcome(Panic("concatenation should work"), df, info_frame_id, r.queries, FALSE)
    ELSE Outcome(Ok, resolve_sort(concat(r.parts)), target_frame_id, r.queries, FALSE)

\* the data frame merged_again of resolve_to_frame when concat has returned
\* it, before it is sorted: the resolved partitions in the order of the
\* iteration; the empty data frame if resolve_to_frame does not get there
concatenated(r) ==
    IF r.result.status = "Ok" /\ r.parts # <<>> THEN concat(r.parts)
    ELSE [names |-> <<>>, dtype |-> <<>>, rows |-> <<>>]

merged_again(df, info_frame_id, tree, target_frame_id, order) ==
    IF \/ info_frame_id = NoFrame /\ ~contains_frame_id_column(df)
       \/ info_frame_id = target_frame_id /\ ~contains_frame_id_column(df)
    THEN [names |-> <<>>, dtype |-> <<>>, rows |-> <<>>]
    ELSE concatenated(resolve_partitions(order,
                                         hash_map(resolve_partitions_of(df), info_frame_id),
                                         tree, target_frame_id, <<>>, 0))

\* resolve_to_frame after the map over the partitions returned r: the store
\* and the info are assigned only when every partition is resolved
resolved(r, df, info_frame_id, target_frame_id) ==
    IF r.result.status # "Ok"
    THEN Outcome(r.result, df, info_frame_id, r.queries, r.lookup_failed)
    ELSE IF r.parts = <<>>
    THEN Outcome(Panic("concatenation should work"), df, info_frame_id, r.queries, FALSE)
    ELSE Outcome(Ok, resolve_sort(concat(r.parts)), target_frame_id, r.queries, FALSE)

\* a resolve_to_frame without the fast path
resolve_to_frame_without_fast_path(df, info_frame_id, tree, target_frame_id, order) ==
    IF info_frame_id = NoFrame /\ ~contains_frame_id_column(df)
    THEN Outcome(Err("NoFrameIdDefinitions"), df, info_frame_id, 0, FALSE)
    ELSE resolved(resolve_partitions(order, hash_map(resolve_partitions_of(df), info_frame_id),
                                     tree, target_frame_id, <<>>, 0),
                  df, info_frame_id, target_frame_id)

\* a resolve_to_frame that does not ask whether the aggregate names a frame
resolve_to_frame_without_frame_check(df, info_frame_id, tree, target_frame_id, order) ==
    IF info_frame_id = target_frame_id /\ ~contains_frame_id_column(df)
    THEN Outcome(Ok, df, info_frame_id, 0, FALSE)
    ELSE resolved(resolve_partitions(order, hash_map(resolve_partitions_of(df), info_frame_id),
                                     tree, target_frame_id, <<>>, 0),
                  df, info_frame_id, target_frame_id)

\* resolve_to_frame on the aggregate (df, info_frame_id, tree), with the hash
\* map iterated in the order `order`: the result, the store and the info of
\* the aggregate afterwards, the number of lookups in the transform graph,
\* and whether a lookup failed
resolve_to_frame(df, info_frame_id, tree, target_frame_id, order) ==
    IF info_frame_id = NoFrame /\ ~contains_frame_id_column(df)
    THEN Outcome(Err("NoFrameIdDefinitions"), df, info_frame_id, 0, FALSE)
    ELSE IF info_frame_id = target_frame_id /\ ~contains_frame_id_column(df)
    THEN Outcome(Ok, df, info_frame_id, 0, FALSE)
    ELSE resolved(resolve_partitions(order, hash_map(resolve_partitions_of(df), info_frame_id),
                                     tree, target_frame_id, <<>>, 0),
                  df, info_frame_id, target_frame_id)

(***************************************************************************)
(* The state.                                                              *)
(*   phase          "input_df": a data frame waits to be handed to a       *)
(*                  constructor; "input_columns": a PointDataColumns       *)
(*                  value does; "built": the aggregate (or store) exists;  *)
(*                  "rejected": the constructor returned an error;         *)
(*                  "aborted": an operation panicked                       *)
(*   point_data     PointCloud.point_data.data_frame (the input data frame *)
(*                  before construction)                                   *)
(*   info           PointCloud.info.frame_id, NoFrame for None             *)
(*   transform_tree PointCloud.transform_tree                              *)
(*   columns        the PointDataColumns handed to PointCloud::new, or the *)
(*                  two corners handed to AxisAlignedBoundingBox::new      *)
(*   last           the last operation: its name, its frame or column      *)
(*                  argument, its result, the aggregate before it, the     *)
(*                  lookups it made in the transform graph                 *)
(*   steps          the number of operations since construction            *)
(*   octree         the calls of PointCloudOctree::from_point_cloud made   *)
(*                  so far: the arguments and what each call returned      *)
(***************************************************************************)
VARIABLES phase, point_data, info, transform_tree, columns, last, steps, octree

vars == <<phase, point_data, info, transform_tree, columns, last, steps, octree>>

Aggregate == [point_data |-> point_data, info |-> info, transform_tree |-> transform_tree]

EmptyFrame == [names |-> <<>>, dtype |-> <<>>, rows |-> <<>>]

\* merged is the data frame merged_again of resolve_to_frame as concat
\* returned it, before it is sorted
LastMerged(op, arg, result, queries, lookup_failed, merged) ==
    [op |-> op, arg |-> arg, result |-> result, before |-> Aggregate,
     queries |-> queries, lookup_failed |-> lookup_failed, merged |-> merged]

Last(op, arg, result, queries, lookup_failed) ==
    LastMerged(op, arg, result, queries, lookup_failed, EmptyFrame)

None == [some |-> FALSE, v |-> <<>>]
Some(v) == [some |-> TRUE, v |-> v]

NoColumns == [point |-> <<>>, id |-> None, frame_id |-> None, timestamp |-> None,
              intensity |-> None, beam_origin |-> None, color |-> None]

\* the transform graph of the model: frame A is the root, frame B is turned
\* by 180 degrees, two units away, and moving, with samples for second 0
\* only; frame C is three units away and not turned
Tree == [frames |-> {"A", "B", "C"}, rot |-> [A |-> 1, B |-> -1, C |-> 1],
         off |-> [A |-> 0, B |-> 2, C |-> 3], dynamic |-> {"B"}, first |-> 0, last |-> 0]

\* the frame ids handed to operations; the transform graph does not know Z
FrameIds == {"A", "B", "Z"}

NoLast == [op |-> "none", arg |-> "", result |-> Ok,
           before |-> [point_data |-> EmptyFrame, info |-> NoFrame, transform_tree |-> Tree],
           queries |-> 0, lookup_failed |-> FALSE, merged |-> EmptyFrame]

(***************************************************************************)
(* Construction from arbitrary tables: the inputs.                         *)
(***************************************************************************)
\* the columns a table handed to a constructor may have, in column order
CandidateColumns ==
    <<"x", "y", "frame_id", "sensor_rotation_x", "octant_index_x", "id", "custom">>

\* a data type that no column of the registry has
WrongType == "String"

DefaultValue(c) == IF c = "frame_id" THEN "A" ELSE 0

\* the table with the candidate columns `present`, those in `wrong` not of
\* their registered type, and n rows
InputTable(present, wrong, n) ==
    LET nn == SelectSeq(CandidateColumns, LAMBDA c : c \in present)
    IN  [names |-> nn,
         dtype |-> [c \in Range(nn) |->
                      IF c \in wrong THEN WrongType
                      ELSE IF c \in PointDataColumnType THEN data_frame_data_type(c)
                      ELSE "Float64"],
         rows  |-> IF nn = <<>> THEN <<>>
                   ELSE [i \in 1..n |-> [c \in Range(nn) |-> DefaultValue(c)]]]

InputTables ==
    {InputTable(present, wrong, n) :
        present \in SUBSET Range(CandidateColumns),
        wrong \in SUBSET Range(CandidateColumns),
        n \in 0..MaxRows}

Repeat(v, n) == [i \in 1..n |-> v]

InputColumns ==
    {[point |-> Repeat(<<0, 0, 0>>, n),
      id |-> IF "id" \in opt THEN Some(Repeat(0, n)) ELSE None,
      frame_id |-> IF "frame_id" \in opt THEN Some(Repeat("A", n)) ELSE None,
      timestamp |-> IF "timestamp" \in opt THEN Some(Repeat(<<0, 0>>, n)) ELSE None,
      intensity |-> IF "intensity" \in opt THEN Some(Repeat(0, n)) ELSE None,
      beam_origin |-> IF "beam_origin" \in opt THEN Some(Repeat(<<0, 0, 0>>, n)) ELSE None,
      color |-> IF "color" \in opt THEN Some(Repeat(<<0, 0, 0>>, n)) ELSE None] :
        opt \in SUBSET {"id", "frame_id", "timestamp", "intensity", "beam_origin", "color"},
        n \in 0..MaxRows}

InitNew ==
    /\ \/ /\ phase = "input_df"
          /\ point_data \in InputTables
          /\ columns = NoColumns
       \/ /\ phase = "input_columns"
          /\ point_data = EmptyFrame
          /\ columns \in InputColumns
    /\ info \in {NoFrame, "A"}
    /\ transform_tree = Tree
    /\ last = NoLast
    /\ steps = 0
    /\ octree = <<>>

Constructed(op, df, result) ==
    /\ phase' = IF result.status = "Ok" THEN "built" ELSE "rejected"
    /\ point_data' = df
    /\ last' = Last(op, "", result, 0, FALSE)
    /\ UNCHANGED <<info, transform_tree, columns, steps, octree>>

\* PointData::new(data_frame)
PointDataNew ==
    /\ phase = "input_df"
    /\ Constructed("PointData::new", point_data, PointData_new(point_data))

\* PointCloud::from_data_frame(point_data, info, transform_tree)
FromDataFrame ==
    /\ phase = "input_df"
    /\ Constructed("PointCloud::from_data_frame", point_data,
                   PointCloud_from_data_frame(point_data, info))

\* PointCloud::new(point_data, info, transform_tree)
New ==
    /\ phase = "input_columns"
    /\ Constructed("PointCloud::new", get_as_data_frame(columns),
                   PointCloud_new(columns, info))

NextNew == PointDataNew \/ FromDataFrame \/ New

SpecNew == InitNew /\ [][NextNew]_vars

(***************************************************************************)
(* The operations on a constructed aggregate.                              *)
(***************************************************************************)
\* PointData::add_frame_ids: [result, df]
add_frame_ids(df, frame_ids) ==
    IF contains_frame_id_column(df)
    THEN [result |-> Err("ColumnAlreadyExists"), df |-> df]
    ELSE IF Len(frame_ids) # height(df)
    THEN [result |-> Err("ShapeMismatch"), df |-> df]
    ELSE [result |-> Ok, df |-> with_column(df, "frame_id", "Categorical", frame_ids)]

\* PointData::add_unique_frame_id
add_unique_frame_id(df, frame_id) == add_frame_ids(df, Repeat(frame_id, height(df)))

\* col(column_name).is_not_null() on one row
is_not_null(row, c) == IF c = "frame_id" THEN TRUE ELSE row[c] # NullNum

\* epoint_transform::filter_none_values_of_column_in_place: [result, df]
filter_none_values_of_column_in_place(df, column_name) ==
    IF ~contains_column(df, column_name) THEN [result |-> Err("Polars"), df |-> df]
    ELSE [result |-> Ok,
          df |-> filter(df, [i \in DOMAIN df.rows |-> is_not_null(df.rows[i], column_name)])]

Applied(op, arg, result, df, info_frame_id, queries, lookup_failed) ==
    /\ phase' = IF result.status = "Panic" THEN "aborted" ELSE phase
    /\ point_data' = df
    /\ info' = info_frame_id
    /\ last' = Last(op, arg, result, queries, lookup_failed)
    /\ steps' = steps + 1
    /\ UNCHANGED <<transform_tree, columns, octree>>

Ready == phase = "built" /\ steps < MaxSteps

\* PointCloud::set_info_frame_id(frame_id)
SetInfoFrameId ==
    /\ Ready
    /\ \E frame_id \in {NoFrame, "A", "B"} :
          Applied("set_info_frame_id", frame_id, Ok, point_data, frame_id, 0, FALSE)

\* PointCloud::update_points(points, frame_id)
UpdatePoints ==
    /\ Ready
    /\ \E points \in {Repeat(<<5, 0, 0>>, height(point_data)), <<>>},
          frame_id \in {NoFrame, "B"} :
          LET u == update_points_in_place(point_data, points)
          IN  Applied("update_points", frame_id, u.result, u.df,
                      IF u.result.status = "Ok" THEN frame_id ELSE info, 0, FALSE)

\* PointCloud::resolve_to_frame(target_frame_id); the order in which the
\* hash map of the partitions is iterated is not determined by the program
ResolveToFrame ==
    /\ Ready
    /\ \E target_frame_id \in FrameIds,
          order \in iteration_orders(resolve_map_keys(point_data, info)) :
          LET r == resolve_to_frame(point_data, info, transform_tree, target_frame_id, order)
          IN  /\ phase' = IF r.result.status = "Panic" THEN "aborted" ELSE phase
              /\ point_data' = r.point_data
              /\ info' = r.info
              /\ last' = LastMerged("resolve_to_frame", target_frame_id, r.result, r.queries,
                                    r.lookup_failed,
                                    merged_again(point_data, info, transform_tree,
                                                 target_frame_id, order))
              /\ steps' = steps + 1
              /\ UNCHANGED <<transform_tree, columns, octree>>

\* point_cloud.point_data.add_frame_ids(frame_ids)
AddFrameIds ==
    /\ Ready
    /\ \E frame_ids \in {[i \in 1..height(point_data) |-> IF i % 2 = 1 THEN "B" ELSE "A"],
                         <<"A", "A", "A", "A", "A">>} :
          LET a == add_frame_ids(point_data, frame_ids)
          IN  Applied("add_frame_ids", "", a.result, a.df, info, 0, FALSE)

\* point_cloud.point_data.add_unique_frame_id(frame_id)
AddUniqueFrameId ==
    /\ Ready
    /\ LET a == add_unique_frame_id(point_data, "A")
       IN  Applied("add_unique_frame_id", "A", a.result, a.df, info, 0, FALSE)

\* filter_none_values_of_column_in_place(point_cloud, column_name)
FilterNoneValuesOfColumnInPlace ==
    /\ Ready
    /\ \E column_name \in {"intensity"} :
          LET f == filter_none_values_of_column_in_place(point_data, column_name)
          IN  Applied("filter_none_values_of_column_in_place", column_name, f.result, f.df,
                      info, 0, FALSE)

(***************************************************************************)
(* The aggregates the model starts from: the stores handed to              *)
(* PointCloud::from_data_frame.                                            *)
(***************************************************************************)
\* row i of scenario v, with every column the model's stores may have
ScenarioRow(v, i) ==
    IF v = 1
    THEN [x |-> i - 1, y |-> 1, z |-> 0,
          frame_id |-> IF i % 2 = 1 THEN "A" ELSE "B",
          timestamp_sec |-> i % 2, timestamp_nanosec |-> 0,
          id |-> 9 - i, intensity |-> NullNum,
          sensor_translation_x |-> 1, sensor_translation_y |-> 1,
          sensor_translation_z |-> 0,
          sensor_rotation_x |-> 0, sensor_rotation_y |-> 0, sensor_rotation_z |-> 0,
          sensor_rotation_w |-> 1, spherical_range |-> i]
    ELSE [x |-> i, y |-> 0, z |-> 0,
          frame_id |-> "C",
          timestamp_sec |-> (i + 1) % 2, timestamp_nanosec |-> i % 2,
          id |-> 0, intensity |-> IF i = 1 THEN 7 ELSE NullNum,
          sensor_translation_x |-> i, sensor_translation_y |-> 0,
          sensor_translation_z |-> 0,
          sensor_rotation_x |-> 0, sensor_rotation_y |-> 0, sensor_rotation_z |-> 1,
          sensor_rotation_w |-> 0, spherical_range |-> i]

ScenarioColumns ==
    {<<"x", "y", "z">>,
     <<"x", "y", "z", "frame_id">>,
     <<"x", "y", "z", "frame_id", "timestamp_sec", "timestamp_nanosec">>,
     <<"x", "y", "z", "id", "timestamp_sec", "timestamp_nanosec">>,
     <<"x", "y", "z", "timestamp_sec">>,
     <<"x", "y", "z", "frame_id", "intensity">>,
     <<"x", "y", "z", "frame_id",
       "sensor_translation_x", "sensor_translation_y", "sensor_translation_z",
       "sensor_rotation_x", "sensor_rotation_y", "sensor_rotation_z", "sensor_rotation_w">>,
     <<"y", "z", "frame_id">>}

ScenarioTable(nn, v, n) ==
    [names |-> nn,
     dtype |-> [c \in Range(nn) |-> data_frame_data_type(c)],
     rows  |-> [i \in 1..n |-> [c \in Range(nn) |-> ScenarioRow(v, i)[c]]]]

ScenarioTables ==
    {ScenarioTable(nn, v, n) : nn \in ScenarioColumns, v \in {1, 2}, n \in 1..MaxRows}

Init ==
    /\ phase = "input_df"
    /\ point_data \in ScenarioTables
    /\ columns = NoColumns
    /\ info \in {NoFrame, "A", "B"}
    /\ transform_tree = Tree
    /\ last = NoLast
    /\ steps = 0
    /\ octree = <<>>

Next ==
    \/ FromDataFrame
    \/ SetInfoFrameId
    \/ UpdatePoints
    \/ ResolveToFrame
    \/ AddFrameIds
    \/ AddUniqueFrameId
    \/ FilterNoneValuesOfColumnInPlace

Spec == Init /\ [][Next]_vars

(***************************************************************************)
(* The operations on a store (PointData), point_data.rs and utility.rs.    *)
(* An operation that returns a new store hands it to the caller, who goes  *)
(* on with it.                                                             *)
(***************************************************************************)
\* PointData::remove_column: [result, df]
remove_column(df, column) ==
    IF column \in {COLUMN_NAME_X_STR, COLUMN_NAME_Y_STR, COLUMN_NAME_Z_STR}
    THEN [result |-> Err("ObligatoryColumn"), df |-> df]
    ELSE IF ~contains_column(df, column) THEN [result |-> Err("Polars"), df |-> df]
    ELSE [result |-> Ok, df |-> drop(df, column)]

\* PointData::add_sequential_id: [result, df]
add_sequential_id(df) ==
    IF contains_id_column(df) THEN [result |-> Err("ColumnAlreadyExists"), df |-> df]
    ELSE [result |-> Ok,
          df |-> with_column(df, "id", "UInt64", [i \in 1..height(df) |-> i - 1])]

\* the three with_column calls of add_sensor_translations
with_sensor_translations(df, v) ==
    with_column(
        with_column(
            with_column(df, "sensor_translation_x", "Float64", [i \in DOMAIN v |-> v[i][1]]),
            "sensor_translation_y", "Float64", [i \in DOMAIN v |-> v[i][2]]),
        "sensor_translation_z", "Float64", [i \in DOMAIN v |-> v[i][3]])

\* PointData::add_sensor_translations: [result, df]
add_sensor_translations(df, sensor_translations) ==
    IF Len(sensor_translations) # height(df)
    THEN [result |-> Err("ShapeMismatch"), df |-> df]
    ELSE [result |-> Ok, df |-> with_sensor_translations(df, sensor_translations)]

\* PointData::add_i64_column: [result, df]
add_i64_column(df, name, values) ==
    IF Len(values) # height(df) THEN [result |-> Err("ShapeMismatch"), df |-> df]
    ELSE [result |-> Ok, df |-> with_column(df, name, "Int64", values)]

\* the largest element of a set of row indices that is not empty
max(row_indices) == CHOOSE m \in row_indices : \A k \in row_indices : k <= m

\* PointData::filter_by_row_indices, row indices counted from 0: [result, df]
filter_by_row_indices(df, row_indices) ==
    IF row_indices = {} THEN [result |-> Err("NoRowIndices"), df |-> df]
    ELSE IF height(df) < max(row_indices)
    THEN [result |-> Err("RowIndexOutsideRange"), df |-> df]
    ELSE [result |-> Ok,
          df |-> filter(df, [i \in 1..height(df) |-> (i - 1) \in row_indices])]

\* PointData::filter_by_boolean_mask: [result, df]; polars rejects a mask
\* that is shorter than the data frame, but for a mask of one entry, which
\* it takes for every row
filter_by_boolean_mask(df, boolean_mask) ==
    IF height(df) < Len(boolean_mask)
    THEN [result |-> Err("RowIndexOutsideRange"), df |-> df]
    ELSE IF Len(boolean_mask) = height(df)
    THEN [result |-> Ok, df |-> filter(df, boolean_mask)]
    ELSE IF Len(boolean_mask) = 1
    THEN [result |-> Ok, df |-> filter(df, [i \in 1..height(df) |-> boolean_mask[1]])]
    ELSE [result |-> Err("Polars"), df |-> df]

\* PointData::filter_by_x_min: [result, df]; Ok(None) if no row is left
filter_by_x_min(df, x_min) ==
    IF ~contains_column(df, "x") THEN [result |-> Err("Polars"), df |-> df]
    ELSE LET filtered == filter(df, [i \in 1..height(df) |-> df.rows[i]["x"] >= x_min])
         IN  IF height(filtered) = 0 THEN [result |-> OkNone, df |-> df]
             ELSE [result |-> Ok, df |-> filtered]

\* an in_bounds that leaves out the points on the upper faces
in_bounds_below(row, bound_min, bound_max) ==
    /\ row["x"] # NullNum /\ row["x"] >= bound_min[1] /\ row["x"] < bound_max[1]
    /\ row["y"] # NullNum /\ row["y"] >= bound_min[2] /\ row["y"] < bound_max[2]
    /\ row["z"] # NullNum /\ row["z"] >= bound_min[3] /\ row["z"] < bound_max[3]

\* PointData::filter_by_bounds: [result, df]; Ok(None) if no row is left. A
\* comparison with a null cell is null, and the filter drops the row.
in_bounds(row, bound_min, bound_max) ==
    /\ row["x"] # NullNum /\ row["x"] >= bound_min[1] /\ row["x"] <= bound_max[1]
    /\ row["y"] # NullNum /\ row["y"] >= bound_min[2] /\ row["y"] <= bound_max[2]
    /\ row["z"] # NullNum /\ row["z"] >= bound_min[3] /\ row["z"] <= bound_max[3]

none_if_empty(filtered, df) ==
    IF height(filtered) = 0 THEN [result |-> OkNone, df |-> df]
    ELSE [result |-> Ok, df |-> filtered]

filter_by_bounds(df, bound_min, bound_max) ==
    IF \E c \in {"x", "y", "z"} : ~contains_column(df, c)
    THEN [result |-> Err("Polars"), df |-> df]
    ELSE none_if_empty(
             filter(df, [i \in 1..height(df) |-> in_bounds(df.rows[i], bound_min, bound_max)]),
             df)

\* PointData::filter_by_x_max, filter_by_y_min, filter_by_y_max, filter_by_z_min
\* and filter_by_z_max, which differ from filter_by_x_min in the column and
\* in the comparison only: [result, df]
filter_by_axis(df, c, is_min, value) ==
    IF ~contains_column(df, c) THEN [result |-> Err("Polars"), df |-> df]
    ELSE none_if_empty(
             filter(df, [i \in 1..height(df) |->
                 /\ df.rows[i][c] # NullNum
                 /\ IF is_min THEN df.rows[i][c] >= value ELSE df.rows[i][c] <= value]),
             df)

\* a filter_by_beam_length that looks for the columns before it looks at
\* the bounds
filter_by_beam_length_columns_first(df, beam_length_min, beam_length_max) ==
    IF ~contains_sensor_translation(df)
    THEN [result |-> Err("NoSensorTranslationColumn"), df |-> df]
    ELSE IF beam_length_min > beam_length_max
    THEN [result |-> Err("LowerBoundExceedsUpperBound"), df |-> df]
    ELSE [result |-> Err("LowerBoundEqualsUpperBound"), df |-> df]

\* the square of the distance of a row's point from its sensor
squared_beam_length(row) ==
    (row["x"] - row["sensor_translation_x"]) * (row["x"] - row["sensor_translation_x"])
    + (row["y"] - row["sensor_translation_y"]) * (row["y"] - row["sensor_translation_y"])
    + (row["z"] - row["sensor_translation_z"]) * (row["z"] - row["sensor_translation_z"])

\* PointData::filter_by_beam_length: [result, df]
filter_by_beam_length(df, beam_length_min, beam_length_max) ==
    IF beam_length_min > beam_length_max
    THEN [result |-> Err("LowerBoundExceedsUpperBound"), df |-> df]
    ELSE IF beam_length_min = beam_length_max
    THEN [result |-> Err("LowerBoundEqualsUpperBound"), df |-> df]
    ELSE IF ~contains_sensor_translation(df)
    THEN [result |-> Err("NoSensorTranslationColumn"), df |-> df]
    ELSE IF \E c \in {"x", "y", "z"} : ~contains_column(df, c)
    THEN [result |-> Err("Polars"), df |-> df]
    ELSE none_if_empty(
             filter(df, [i \in 1..height(df) |->
                 /\ squared_beam_length(df.rows[i]) >= beam_length_min * beam_length_min
                 /\ squared_beam_length(df.rows[i]) <= beam_length_max * beam_length_max]),
             df)

\* PointData::filter_by_spherical_range_min (is_min) and
\* filter_by_spherical_range_max: [result, df]
filter_by_spherical_range(df, is_min, value) ==
    IF ~contains_column(df, "spherical_range")
    THEN [result |-> Err("NoSphericalRangeColumn"), df |-> df]
    ELSE filter_by_axis(df, "spherical_range", is_min, value)

\* the sets of row indices that generate_random_numbers may return: which
\* one it is depends on the seed
generate_random_numbers(number_max, len) ==
    {n \in SUBSET (0..(number_max - 1)) : Cardinality(n) = len}

\* a deterministic_divide that leaves the drawn rows among the remaining
deterministic_divide_keeping_drawn(df, target_size, row_indices) ==
    [result |-> Ok,
     target |-> filter_by_boolean_mask(df,
                    [i \in 1..height(df) |-> (i - 1) \in row_indices]).df,
     remaining |-> df]

\* deterministic_divide, with the row indices drawn: [result, target, remaining]
deterministic_divide(df, target_size, row_indices) ==
    [result |-> Ok,
     target |-> filter_by_boolean_mask(df,
                    [i \in 1..height(df) |-> (i - 1) \in row_indices]).df,
     remaining |-> filter_by_boolean_mask(df,
                    [i \in 1..height(df) |-> (i - 1) \notin row_indices]).df]

AppliedToStore(op, arg, r) == Applied(op, arg, r.result, r.df, info, 0, FALSE)

RemoveColumn ==
    /\ Ready
    /\ \E column \in {"x", "frame_id", "intensity"} :
          AppliedToStore("remove_column", column, remove_column(point_data, column))

AddSequentialId ==
    /\ Ready
    /\ AppliedToStore("add_sequential_id", "", add_sequential_id(point_data))

AddSensorTranslations ==
    /\ Ready
    /\ \E n \in {height(point_data), height(point_data) + 1} :
          AppliedToStore("add_sensor_translations", n,
                         add_sensor_translations(point_data, [i \in 1..n |-> <<5, 6, 7>>]))

AddI64Column ==
    /\ Ready
    /\ \E n \in {height(point_data), height(point_data) + 1} :
          AppliedToStore("add_i64_column", "custom",
                         add_i64_column(point_data, "custom", Repeat(0, n)))

FilterByRowIndices ==
    /\ Ready
    /\ \E row_indices \in {{}, {0}, {height(point_data)}, {height(point_data) + 1},
                           0..(height(point_data) - 1)} :
          AppliedToStore("filter_by_row_indices", row_indices,
                         filter_by_row_indices(point_data, row_indices))

FilterByBooleanMask ==
    /\ Ready
    /\ \E boolean_mask \in {Repeat(FALSE, height(point_data)),
                            Repeat(TRUE, height(point_data)),
                            [i \in 1..height(point_data) |-> i = 1],
                            Repeat(TRUE, height(point_data) + 1)} :
          AppliedToStore("filter_by_boolean_mask", boolean_mask,
                         filter_by_boolean_mask(point_data, boolean_mask))

FilterByXMin ==
    /\ Ready
    /\ \E x_min \in {2, 9} :
          AppliedToStore("filter_by_x_min", x_min, filter_by_x_min(point_data, x_min))

\* PointData::filter_by_bounds(bound_min, bound_max); the caller goes on with
\* the store returned, if one was
FilterByBounds ==
    /\ Ready
    /\ \E bound_min \in {<<1, 0, 0>>, <<2, -1, -1>>, <<0, 1, 0>>},
          bound_max \in {<<1, 0, 0>>, <<2, 0, 0>>, <<9, 9, 9>>} :
          AppliedToStore("filter_by_bounds", [min |-> bound_min, max |-> bound_max],
                         filter_by_bounds(point_data, bound_min, bound_max))

\* PointData::filter_by_beam_length(beam_length_min, beam_length_max)
FilterByBeamLength ==
    /\ Ready
    /\ \E bounds \in {<<1, 1>>, <<2, 1>>, <<0, 1>>, <<1, 2>>} :
          AppliedToStore("filter_by_beam_length", [min |-> bounds[1], max |-> bounds[2]],
                         filter_by_beam_length(point_data, bounds[1], bounds[2]))

\* PointData::filter_by_spherical_range_min(v), filter_by_spherical_range_max(v)
FilterBySphericalRange ==
    /\ Ready
    /\ \E is_min \in BOOLEAN, value \in {1, 5} :
          AppliedToStore("filter_by_spherical_range", [is_min |-> is_min, value |-> value],
                         filter_by_spherical_range(point_data, is_min, value))

\* PointData::filter_by_x_max(x_max), filter_by_y_min(y_min), ...
FilterByAxis ==
    /\ Ready
    /\ \E c \in {"x", "y", "z"}, is_min \in BOOLEAN, value \in 0..2 :
          AppliedToStore("filter_by_axis", [column |-> c, is_min |-> is_min, value |-> value],
                         filter_by_axis(point_data, c, is_min, value))

\* deterministic_divide(point_data, target_size, seed_number); the caller goes
\* on with one of the two stores
DeterministicDivide ==
    /\ Ready
    /\ \E target_size \in {0, 1, height(point_data) + 1} :
          IF height(point_data) < target_size
          THEN Applied("deterministic_divide", "", Err("InvalidNumber"), point_data, info,
                       0, FALSE)
          ELSE \E row_indices \in generate_random_numbers(height(point_data), target_size),
                  part \in {"target", "remaining"} :
                  Applied("deterministic_divide", part, Ok,
                          deterministic_divide(point_data, target_size, row_indices)[part],
                          info, 0, FALSE)

\* the tables handed to PointData::new
StoreColumns ==
    {<<"x", "y", "z">>,
     <<"x", "y", "z", "frame_id">>,
     <<"x", "y", "z", "id", "intensity">>,
     <<"x", "y", "z", "sensor_translation_x", "sensor_translation_y", "sensor_translation_z">>,
     <<"x", "y", "z", "sensor_translation_x", "spherical_range">>,
     <<"y", "z", "frame_id">>}

InitStore ==
    /\ phase = "input_df"
    /\ point_data \in {ScenarioTable(nn, 2, n) : nn \in StoreColumns, n \in 0..MaxRows}
    /\ columns = NoColumns
    /\ info = NoFrame
    /\ transform_tree = Tree
    /\ last = NoLast
    /\ steps = 0
    /\ octree = <<>>

NextStore ==
    \/ PointDataNew
    \/ RemoveColumn
    \/ AddSequentialId
    \/ AddSensorTranslations
    \/ AddI64Column
    \/ AddUniqueFrameId
    \/ FilterByRowIndices
    \/ FilterByBooleanMask
    \/ FilterByXMin
    \/ FilterByBounds
    \/ FilterByAxis
    \/ FilterByBeamLength
    \/ FilterBySphericalRange
    \/ DeterministicDivide
    \/ FilterNoneValuesOfColumnInPlace

SpecStore == InitStore /\ [][NextStore]_vars

(***************************************************************************)
(* Bounding boxes and cubes, bounding_box.rs. A point is a tuple           *)
(* <<x, y, z>> of f64. An f64 of the model is a whole number with at most  *)
(* MantissaBits significant binary digits, and every addition, subtraction *)
(* and division rounds its exact result to the nearest such number, ties   *)
(* to the even one, as IEEE 754 does with 53 digits. The coordinates of    *)
(* the octree scenarios are large enough for the halvings down to depth    *)
(* MaxDepth to stay above the smallest step of the model.                  *)
(***************************************************************************)
MaxDepth == 3

Unit == 2 ^ (MaxDepth + 2)

\* the smallest and the largest element of a set of numbers that is not empty
set_min(values) == CHOOSE m \in values : \A k \in values : m <= k
set_max(values) == CHOOSE m \in values : \A k \in values : k <= m

\* the values of a column that are not null
column_values(df, c) == {df.rows[i][c] : i \in 1..height(df)} \ {NullNum}

\* PointData::get_local_min and get_local_max, for a store that has the
\* columns x, y and z and a value in each
get_local_min(df) ==
    <<set_min(column_values(df, "x")), set_min(column_values(df, "y")),
      set_min(column_values(df, "z"))>>

get_local_max(df) ==
    <<set_max(column_values(df, "x")), set_max(column_values(df, "y")),
      set_max(column_values(df, "z"))>>

\* lower_bound > upper_bound of nalgebra's Point3: in every coordinate
point_gt(a, b) == \A k \in 1..3 : a[k] > b[k]

\* AxisAlignedBoundingBox::new: [result, lower_bound, upper_bound]
AxisAlignedBoundingBox_new(lower_bound, upper_bound) ==
    [result |-> IF point_gt(lower_bound, upper_bound) THEN Err("LowerBoundExceedsUpperBound")
                ELSE IF lower_bound = upper_bound THEN Err("LowerBoundEqualsUpperBound")
                ELSE Ok,
     lower_bound |-> lower_bound,
     upper_bound |-> upper_bound]

\* expect("should work") on the result of AxisAlignedBoundingBox::new
expect_should_work(r) ==
    IF r.result.status = "Ok" THEN r ELSE [r EXCEPT !.result = Panic("should work")]

\* PointData::get_axis_aligned_bounding_box: [result, lower_bound,
\* upper_bound]; it panics where a column of x, y, z is missing or has no
\* value, and where AxisAlignedBoundingBox::new returns an error
get_axis_aligned_bounding_box(df) ==
    IF \E c \in {"x", "y", "z"} : ~contains_column(df, c)
    THEN [result |-> Panic("column mandatory"), lower_bound |-> <<0, 0, 0>>,
          upper_bound |-> <<0, 0, 0>>]
    ELSE IF \E c \in {"x", "y", "z"} : column_values(df, c) = {}
    THEN [result |-> Panic("point cloud not empty"), lower_bound |-> <<0, 0, 0>>,
          upper_bound |-> <<0, 0, 0>>]
    ELSE expect_should_work(AxisAlignedBoundingBox_new(get_local_min(df), get_local_max(df)))

\* the number of significant binary digits of an f64 of the model
MantissaBits == MaxDepth + 3

abs(n) == IF n < 0 THEN 0 - n ELSE n

\* the distance between neighbouring f64 at the magnitude of n / d: the
\* smallest power of two s with |n / d| < 2^MantissaBits * s
RECURSIVE spacing(_, _, _)
spacing(n, d, s) == IF abs(n) < (2 ^ MantissaBits) * s * d THEN s ELSE spacing(n, d, 2 * s)

\* a / b rounded to the nearest whole number, ties to the even one
round_half_even(a, b) ==
    IF 2 * (a % b) < b THEN a \div b
    ELSE IF 2 * (a % b) > b THEN (a \div b) + 1
    ELSE IF (a \div b) % 2 = 0 THEN a \div b
    ELSE (a \div b) + 1

\* the f64 that an operation with the exact result n / d returns
fl(n, d) == spacing(n, d, 1) * round_half_even(n, d * spacing(n, d, 1))

\* AxisAlignedBoundingBox::diagonal and get_center
diagonal(bounding_box) ==
    [k \in 1..3 |-> fl(bounding_box.upper_bound[k] - bounding_box.lower_bound[k], 1)]

get_center(bounding_box) ==
    [k \in 1..3 |-> fl(bounding_box.lower_bound[k] + fl(diagonal(bounding_box)[k], 2), 1)]

\* AxisAlignedBoundingCube::from_bounding_box: [center, edge_length]
from_bounding_box(bounding_box) ==
    [center |-> get_center(bounding_box),
     edge_length |-> set_max(Range(diagonal(bounding_box)))]

half_edge_length(cube) == fl(cube.edge_length, 2)

get_lower_bound(cube) == [k \in 1..3 |-> fl(cube.center[k] - half_edge_length(cube), 1)]

get_upper_bound(cube) == [k \in 1..3 |-> fl(cube.center[k] + half_edge_length(cube), 1)]

\* 1.0 for true, -1.0 for false
sign(half) == IF half THEN 1 ELSE -1

\* sign * sub_cube_edge_length / 2.0 added to a coordinate of the centre
sub_cube_center(coordinate, half, sub_cube_edge_length) ==
    fl(coordinate + fl(fl(sign(half) * sub_cube_edge_length, 1), 2), 1)

\* AxisAlignedBoundingCube::get_sub_cube; the edge length of a sub-cube of
\* the model is positive, so that AxisAlignedBoundingCube::new returns it
get_sub_cube(cube, x_half, y_half, z_half) ==
    [center |-> <<sub_cube_center(cube.center[1], x_half, half_edge_length(cube)),
                  sub_cube_center(cube.center[2], y_half, half_edge_length(cube)),
                  sub_cube_center(cube.center[3], z_half, half_edge_length(cube))>>,
     edge_length |-> half_edge_length(cube)]

(***************************************************************************)
(* The octree, octree.rs.                                                  *)
(***************************************************************************)
\* OctantIdentifier: Zero to Seven, in the order of OctantIdentifier::iter()
OctantIdentifier == 0..7

axis_x_sign(octant) == octant \in {0, 3, 4, 7}
axis_y_sign(octant) == octant \in {0, 1, 6, 7}
axis_z_sign(octant) == octant \in {0, 1, 2, 3}

\* Option<u64>::unwrap_or_default
unwrap_or_default(seed_number) == IF seed_number.some THEN seed_number.v ELSE 0

\* a generator that is not seeded anew by each call: its stream goes on
\* where the calls before left it
unseeded_random_numbers(seed, number_max, len) ==
    {(Len(octree) + k) % number_max : k \in 0..(len - 1)}

\* the row indices that generate_random_numbers returns for a generator
\* ChaCha8Rng::seed_from_u64(seed): the first len different numbers of the
\* generator's stream below number_max. The stream of the model is seed,
\* seed + 1, ... modulo number_max: a function of the seed and of nothing
\* else, as the generator's is.
seeded_random_numbers(seed, number_max, len) ==
    {(seed + k) % number_max : k \in 0..(len - 1)}

\* deterministic_divide(point_data, target_size, seed_number):
\* [result, target, remaining]
seeded_divide(df, target_size, seed_number) ==
    IF height(df) < target_size
    THEN [result |-> Err("InvalidNumber"), target |-> df, remaining |-> df]
    ELSE deterministic_divide(df, target_size,
             seeded_random_numbers(unwrap_or_default(seed_number), height(df), target_size))

\* what derive_octants returns: [result, cells, calls]. cells is the hash
\* map as the set of its entries [id, bounding_cube, point_data]; calls is
\* the set of the recursive calls made, each with the number of points that
\* it received and the number that its caller had received.
Cells(result, cells, calls) == [result |-> result, cells |-> cells, calls |-> calls]

Cell(id, bounding_cube, df) == [id |-> id, bounding_cube |-> bounding_cube, point_data |-> df]

\* the recursion of the model stops at depth MaxDepth: a call that would
\* divide there is not finished
Unfinished == [status |-> "Unfinished", error |-> "", column |-> ""]

\* the result of the loop over the octants: the first result that is not Ok
\* ends it
first_failure(children) ==
    IF \A o \in OctantIdentifier : children[o].result.status = "Ok" THEN Ok
    ELSE children[CHOOSE o \in OctantIdentifier :
                      /\ children[o].result.status # "Ok"
                      /\ \A p \in 0..(o - 1) : children[p].result.status = "Ok"].result

\* cell_collection after the loop: the base cell and what the calls returned
cell_collection(base, children) ==
    Cells(first_failure(children),
          {base} \cup UNION {children[o].cells : o \in OctantIdentifier},
          UNION {children[o].calls : o \in OctantIdentifier})

\* what a recursive call returned, with the call noted
cell_collection_with_call(r, call) == Cells(r.result, r.cells, r.calls \cup {call})

RECURSIVE derive_octants(_, _, _, _, _, _)

\* one pass of the loop, from the filtered points on
current_octant(cell_id, filtered, cube, max_point_cloud_size, seed_number, depth, received) ==
    IF filtered.result.status = "OkNone" THEN Cells(Ok, {}, {})
    ELSE IF filtered.result.status # "Ok" THEN Cells(filtered.result, {}, {})
    ELSE cell_collection_with_call(
             derive_octants(cell_id, filtered.df, cube, max_point_cloud_size, seed_number,
                            depth + 1),
             [id |-> cell_id, received |-> height(filtered.df), parent_received |-> received])

current_octant_cube(id, remaining, cube, max_size, seed_number, depth, received, octant) ==
    current_octant(Append(id, octant),
                   filter_by_bounds(remaining, get_lower_bound(cube), get_upper_bound(cube)),
                   cube, max_size, seed_number, depth, received)

\* derive_octants after its early return, with the points divided
divided(id, division, bounding_cube, max_point_cloud_size, seed_number, depth, received) ==
    IF division.result.status # "Ok" THEN Cells(division.result, {}, {})
    ELSE cell_collection(
             Cell(id, bounding_cube, division.target),
             [octant \in OctantIdentifier |->
                 current_octant_cube(id, division.remaining,
                     get_sub_cube(bounding_cube, axis_x_sign(octant), axis_y_sign(octant),
                                  axis_z_sign(octant)),
                     max_point_cloud_size, seed_number, depth, received, octant)])

derive_octants(id, df, bounding_cube, max_point_cloud_size, seed_number, depth) ==
    IF height(df) <= max_point_cloud_size
    THEN Cells(Ok, {Cell(id, bounding_cube, df)}, {})
    ELSE IF depth >= MaxDepth THEN Cells(Unfinished, {}, {})
    ELSE divided(id, seeded_divide(df, max_point_cloud_size, seed_number), bounding_cube,
                 max_point_cloud_size, seed_number, depth, height(df))

\* CellIdentifier::origin
origin == <<>>

\* PointCloudOctree::from_point_cloud, from the bounding box on
from_point_cloud_in(df, bounding_box, max_point_cloud_size, seed_number) ==
    IF bounding_box.result.status # "Ok" THEN Cells(bounding_box.result, {}, {})
    ELSE derive_octants(origin, df, from_bounding_box(bounding_box), max_point_cloud_size,
                        seed_number, 0)

from_point_cloud(df, max_point_cloud_size, seed_number) ==
    from_point_cloud_in(df, get_axis_aligned_bounding_box(df), max_point_cloud_size,
                        seed_number)

\* one call of from_point_cloud on a clone of the aggregate's points
OctreeCall(df, max_point_cloud_size, seed_number, r) ==
    [point_data |-> df, max_point_cloud_size |-> max_point_cloud_size,
     seed_number |-> seed_number, result |-> r.result, cells |-> r.cells, calls |-> r.calls]

MaxPointCloudSizes == 0..2

SeedNumbers == {None, Some(0), Some(1)}

\* the state after from_point_cloud returned r, or panicked
OctreeBuilt(max_point_cloud_size, seed_number, r) ==
    /\ octree' = Append(octree, OctreeCall(point_data, max_point_cloud_size, seed_number, r))
    /\ phase' = IF r.result.status = "Panic" THEN "aborted" ELSE phase
    /\ last' = Last("from_point_cloud", "", r.result, 0, FALSE)
    /\ steps' = steps + 1
    /\ UNCHANGED <<point_data, info, transform_tree, columns>>

\* PointCloudOctree::from_point_cloud(point_cloud.clone(), max_point_cloud_size, seed_number)
FromPointCloud ==
    /\ Ready
    /\ \E max_point_cloud_size \in MaxPointCloudSizes, seed_number \in SeedNumbers :
          OctreeBuilt(max_point_cloud_size, seed_number,
                      from_point_cloud(point_data, max_point_cloud_size, seed_number))

\* the clouds handed to the octree: the first n points of a list.
\*   list 1: no point on a face between sibling cubes: two opposite
\*           corners of the root cube and points with odd coordinates
\*   list 2: points in the plane x = 0 and on the line z = 0, which are on
\*           the faces between the sub-cubes of the root cube
\*   list 3: points that coincide, and one that does not
\*   list 4: a cloud far from the origin, where the centre of the bounding
\*           box is not an f64 and is rounded
MaxPoints == 3

\* the f64 that is k steps of width Unit away from Unit * 2^MantissaBits,
\* where the distance between neighbouring f64 grows from Unit to 2 * Unit
Far(k) == Unit * ((2 ^ MantissaBits) + k)

OctreePoints(v) ==
    IF v = 1 THEN <<<<0, 0, 0>>, <<Unit, Unit, Unit>>, <<3, 3, 3>>, <<Unit - 3, 3, 5>>>>
    ELSE IF v = 2 THEN <<<<0, 0, 0>>, <<0, Unit, 0>>, <<0, Unit \div 2, 0>>, <<0, Unit, Unit>>>>
    ELSE IF v = 3
    THEN <<<<Unit, Unit, Unit>>, <<Unit, Unit, Unit>>, <<0, 0, 0>>, <<Unit, Unit, Unit>>>>
    ELSE <<<<Far(-3), Far(-3), Far(-3)>>, <<Far(6), Far(6), Far(6)>>,
           <<Far(0), Far(2), Far(4)>>, <<Far(4), Far(0), Far(2)>>>>

OctreePoint(v, i) == OctreePoints(v)[((i - 1) % Len(OctreePoints(v))) + 1]

OctreeTable(v, n) ==
    [names |-> <<"x", "y", "z", "id">>,
     dtype |-> [c \in {"x", "y", "z", "id"} |-> data_frame_data_type(c)],
     rows  |-> [i \in 1..n |-> [x |-> OctreePoint(v, i)[1], y |-> OctreePoint(v, i)[2],
                                z |-> OctreePoint(v, i)[3], id |-> i]]]

InitOctree ==
    /\ phase = "input_df"
    /\ point_data \in {OctreeTable(v, n) : v \in 1..4, n \in 1..MaxPoints}
    /\ columns = NoColumns
    /\ info = NoFrame
    /\ transform_tree = Tree
    /\ last = NoLast
    /\ steps = 0
    /\ octree = <<>>

NextOctree == FromDataFrame \/ FromPointCloud

SpecOctree == InitOctree /\ [][NextOctree]_vars

(***************************************************************************)
(* The construction of a bounding box from two corners: the corners wait   *)
(* in columns as [lower_bound, upper_bound].                               *)
(***************************************************************************)
Corners == {<<x, y, z>> : x \in 0..2, y \in 0..2, z \in 0..2}

InitBox ==
    /\ phase = "input_box"
    /\ point_data = EmptyFrame
    /\ columns \in [lower_bound : Corners, upper_bound : Corners]
    /\ info = NoFrame
    /\ transform_tree = Tree
    /\ last = NoLast
    /\ steps = 0
    /\ octree = <<>>

\* AxisAlignedBoundingBox::new(lower_bound, upper_bound)
BoundingBoxNew ==
    /\ phase = "input_box"
    /\ Constructed("AxisAlignedBoundingBox::new", point_data,
                   AxisAlignedBoundingBox_new(columns.lower_bound, columns.upper_bound).result)

NextBox == BoundingBoxNew

SpecBox == InitBox /\ [][NextBox]_vars

(***************************************************************************)
(* Claims about construction, checked under SpecNew.                       *)
(***************************************************************************)
ByAggregateConstructor == last.op \in {"PointCloud::new", "PointCloud::from_data_frame"}

\* C1: an aggregate constructor handed a store with a per-point frame_id
\* column together with a cloud-wide frame id returns
\* MultipleFrameIdDefinitions, whatever the rows and the column types of the
\* store are, and no aggregate exists afterwards.
C1_AmbiguousFrameIdsRejected ==
    (ByAggregateConstructor /\ contains_frame_id_column(point_data) /\ info # NoFrame)
        => (last.result = Err("MultipleFrameIdDefinitions") /\ phase = "rejected")

\* C1 witness: from_data_frame has rejected a store of zero rows whose
\* frame_id column is wrongly typed, with a cloud-wide frame id set.
C1_Witness ==
    /\ last.op = "PointCloud::from_data_frame"
    /\ contains_frame_id_column(point_data)
    /\ info # NoFrame
    /\ height(point_data) = 0
    /\ point_data.dtype["frame_id"] = WrongType
    /\ last.result = Err("MultipleFrameIdDefinitions")
    /\ phase = "rejected"

\* the columns of df that the registry names and whose type is not the
\* registered one
RegistryMistyped(df) ==
    {c \in Range(df.names) \cap PointDataColumnType : df.dtype[c] # data_frame_data_type(c)}

\* C2: PointData::new succeeds exactly for a table with at least one row all
\* of whose registry columns (all 26 kinds) have their registered type; it
\* returns NoData for zero rows and otherwise TypeMismatch naming a wrongly
\* typed column.
C2_ConstructIffNonEmptyAndTyped ==
    last.op = "PointData::new" =>
        /\ last.result.status = "Ok"
              <=> (height(point_data) > 0 /\ RegistryMistyped(point_data) = {})
        /\ height(point_data) = 0 => last.result = Err("NoData")
        /\ (height(point_data) > 0 /\ RegistryMistyped(point_data) # {})
              => (last.result.error = "TypeMismatch"
                  /\ last.result.column \in RegistryMistyped(point_data))


(***************************************************************************)
(* Claims about the store, checked under SpecStore.                        *)
(***************************************************************************)
XYZ == {COLUMN_NAME_X_STR, COLUMN_NAME_Y_STR, COLUMN_NAME_Z_STR}

\* C3: the store is never empty: every store reached from a constructed
\* store by the public operations has at least one row
C3_StoreNeverEmpty ==
    phase = "built" => height(point_data) > 0

\* C5: every store that construction accepts, and every store reached from
\* it by add_* and remove_column calls, has the columns x, y and z;
\* remove_column of x, y or z fails with ObligatoryColumn and leaves the
\* store as it was
C5_XYZMandatory ==
    /\ phase = "built" => \A c \in XYZ : contains_column(point_data, c)
    /\ (last.op = "remove_column" /\ last.arg \in XYZ)
          => (last.result = Err("ObligatoryColumn") /\ point_data = last.before.point_data)

(***************************************************************************)
(* Claims about the aggregate, checked under Spec.                         *)
(***************************************************************************)
Resolved == last.op = "resolve_to_frame"

\* C4: a constructed aggregate never has both a per-point frame_id column
\* and a cloud-wide frame id, whatever mutators were called; after a
\* successful resolve_to_frame(target) the cloud-wide frame id is target and
\* there is no per-point frame_id column
C4_FrameIdSourcesExclusive ==
    /\ phase = "built" => ~(contains_frame_id_column(point_data) /\ info # NoFrame)
    /\ (Resolved /\ last.result = Ok)
          => (info = last.arg /\ ~contains_frame_id_column(point_data))

FastPathCase ==
    /\ Resolved
    /\ last.before.info = last.arg
    /\ ~contains_frame_id_column(last.before.point_data)

\* C6: resolve_to_frame(F) on an aggregate whose cloud-wide frame id is F and
\* whose store has no per-point frame_id column succeeds, leaves store, info
\* and transform graph as they were, and does not query the transform graph
C6_FastPathLeavesAggregate ==
    FastPathCase => (last.result = Ok /\ Aggregate = last.before /\ last.queries = 0)

C6_Witness ==
    /\ FastPathCase
    /\ height(last.before.point_data) >= 2
    /\ contains_timestamp_sec_column(last.before.point_data)

\* C7: after a successful resolve_to_frame(F), a second resolve_to_frame(F)
\* succeeds and leaves the aggregate equal to the result of the first call
C7_ResolveIdempotent ==
    (Resolved /\ last.result = Ok)
        => \A order \in iteration_orders(resolve_map_keys(point_data, info)) :
              /\ resolve_to_frame(point_data, info, transform_tree, last.arg, order).result = Ok
              /\ resolve_to_frame(point_data, info, transform_tree, last.arg, order).point_data
                    = point_data
              /\ resolve_to_frame(point_data, info, transform_tree, last.arg, order).info = info

C7_Witness ==
    /\ Resolved
    /\ last.result = Ok
    /\ contains_frame_id_column(last.before.point_data)
    /\ last.queries >= 2
    /\ point_data.rows # last.before.point_data.rows

\* C8: when the lookup in the transform graph fails for a partition, the
\* store, the info and the transform graph are after resolve_to_frame what
\* they were before it, also when other partitions were transformed already
C8_ResolveAtomic ==
    (Resolved /\ last.lookup_failed) => Aggregate = last.before

C8_Witness ==
    /\ Resolved
    /\ last.lookup_failed
    /\ last.queries >= 2

\* C9: when the transform graph cannot resolve a partition, resolve_to_frame
\* returns a typed error to its caller: it neither panics nor succeeds
C9_LookupFailureIsTypedError ==
    (Resolved /\ last.lookup_failed) => last.result.status = "Err"

NoFrameCase ==
    /\ Resolved
    /\ last.before.info = NoFrame
    /\ ~contains_frame_id_column(last.before.point_data)

\* C10: resolve_to_frame on an aggregate with neither a cloud-wide frame id
\* nor a per-point frame_id column fails with NoFrameIdDefinitions, for
\* every target frame, and leaves the aggregate as it was
C10_NoFrameIdDefinitions ==
    NoFrameCase => (last.result = Err("NoFrameIdDefinitions") /\ Aggregate = last.before)

C10_Witness ==
    /\ NoFrameCase
    /\ last.arg \in Tree.frames
    /\ height(point_data) >= 1


\* the frame a row of the aggregate is in: its per-point frame id if the
\* column exists, else the cloud-wide frame id
effective_frame(aggregate, row) ==
    IF contains_frame_id_column(aggregate.point_data) THEN row["frame_id"]
    ELSE aggregate.info

\* the time a row of the aggregate is of: its per-point timestamp if both
\* timestamp columns exist, else none
effective_timestamp(aggregate, row) ==
    IF /\ contains_timestamp_sec_column(aggregate.point_data)
       /\ contains_timestamp_nanosec_column(aggregate.point_data)
    THEN <<row["timestamp_sec"], row["timestamp_nanosec"]>>
    ELSE NoTimestamp

\* the position of a row of the aggregate in the frame target, by the
\* isometry of the row's own frame and time
expected_position(aggregate, target, row) ==
    transform_point(get_isometry(aggregate.transform_tree, target,
                                 effective_frame(aggregate, row),
                                 effective_timestamp(aggregate, row)),
                    <<row["x"], row["y"], row["z"]>>)

\* the columns that resolution neither transforms nor drops
AttributeNames(df) ==
    Range(df.names) \ ({"x", "y", "z", "frame_id"} \cup SensorTranslationNames
                        \cup SensorRotationNames)

\* a row as resolution has to leave it: its attributes and its position in
\* the frame target
expected_row(aggregate, target, row) ==
    [c \in AttributeNames(aggregate.point_data) \cup {"x", "y", "z"} |->
        IF c = "x" THEN expected_position(aggregate, target, row)[1]
        ELSE IF c = "y" THEN expected_position(aggregate, target, row)[2]
        ELSE IF c = "z" THEN expected_position(aggregate, target, row)[3]
        ELSE row[c]]

\* a row of the store with its attributes and its position only
position_row(df, row) == [c \in AttributeNames(df) \cup {"x", "y", "z"} |-> row[c]]

SlowPathResolved == Resolved /\ last.result = Ok /\ last.queries > 0

\* C11: after a successful resolve_to_frame(target), every row of the store
\* is a row of the store before the call with its position transformed by
\* the isometry of that row's own effective frame and effective timestamp:
\* no row is transformed with the isometry of another frame or time
C11_RowsTransformedByOwnIsometry ==
    SlowPathResolved =>
        \A i \in DOMAIN point_data.rows :
            Cardinality({j \in DOMAIN point_data.rows :
                            position_row(point_data, point_data.rows[j])
                                = position_row(point_data, point_data.rows[i])})
            <= Cardinality({j \in DOMAIN last.before.point_data.rows :
                            expected_row(last.before, last.arg, last.before.point_data.rows[j])
                                = position_row(point_data, point_data.rows[i])})

C11_Witness ==
    /\ SlowPathResolved
    /\ last.queries >= 2
    /\ \E i, j \in DOMAIN last.before.point_data.rows :
          /\ effective_frame(last.before, last.before.point_data.rows[i])
                # effective_frame(last.before, last.before.point_data.rows[j])
          /\ expected_position(last.before, last.arg, last.before.point_data.rows[j])
                # <<last.before.point_data.rows[j]["x"], last.before.point_data.rows[j]["y"],
                    last.before.point_data.rows[j]["z"]>>


\* the sensor pose of a row as its columns state it: the translation, and
\* the rotation as a quaternion <<i, j, k, w>>
sensor_translation_of(row) ==
    <<row["sensor_translation_x"], row["sensor_translation_y"], row["sensor_translation_z"]>>

sensor_rotation_of(row) ==
    <<row["sensor_rotation_x"], row["sensor_rotation_y"], row["sensor_rotation_z"],
      row["sensor_rotation_w"]>>

own_isometry(aggregate, target, row) ==
    get_isometry(aggregate.transform_tree, target, effective_frame(aggregate, row),
                 effective_timestamp(aggregate, row))

\* the sensor pose that resolution has to leave in a row: the isometry
\* applied to the translation as a position, and only the rotation of the
\* isometry multiplied from the left onto the rotation
expected_sensor_pose(aggregate, target, row) ==
    [translation |-> transform_point(own_isometry(aggregate, target, row),
                                     sensor_translation_of(row)),
     rotation |-> quaternion_product(rotation_quaternion(own_isometry(aggregate, target, row)),
                                     sensor_rotation_of(row))]

SensorPosesResolved ==
    /\ SlowPathResolved
    /\ contains_sensor_translation(last.before.point_data)
    /\ contains_sensor_rotation(last.before.point_data)

\* C12: resolution replaces the sensor translation of a row by its isometry
\* applied to it as a position, and the sensor rotation by the rotation of
\* the isometry multiplied from the left onto it; the translation of the
\* isometry does not reach the sensor rotation, so an isometry that is a
\* pure translation leaves every sensor rotation as it was
C12_SensorPosesTransformed ==
    SensorPosesResolved =>
        \A i \in DOMAIN point_data.rows :
            \E j \in DOMAIN last.before.point_data.rows :
                /\ sensor_translation_of(point_data.rows[i])
                      = expected_sensor_pose(last.before, last.arg,
                                             last.before.point_data.rows[j]).translation
                /\ sensor_rotation_of(point_data.rows[i])
                      = expected_sensor_pose(last.before, last.arg,
                                             last.before.point_data.rows[j]).rotation


\* the order of rows that resolution has to leave: by time if both timestamp
\* columns and no identifier column exist, else by identifier if that column
\* exists, rows with equal keys in the order they had
canonical_order(df) ==
    IF /\ contains_timestamp_sec_column(df)
       /\ contains_timestamp_nanosec_column(df)
       /\ ~contains_id_column(df)
    THEN sort(df, <<"timestamp_sec", "timestamp_nanosec">>)
    ELSE IF contains_id_column(df) THEN sort(df, <<"id">>)
    ELSE df

\* C13: after a successful resolve_to_frame that was not the fast path, the
\* rows of a store with both timestamp columns and no identifier column are
\* in ascending time order, and the rows of a store with an identifier column
\* are in ascending identifier order, rows with equal keys in the order in
\* which the partitions were concatenated; timestamps play no part when an
\* identifier column exists
C13_CanonicalRowOrder ==
    (SlowPathResolved /\ (contains_id_column(point_data)
                          \/ (/\ contains_timestamp_sec_column(point_data)
                              /\ contains_timestamp_nanosec_column(point_data))))
        => point_data = canonical_order(last.merged)


\* C14: the row order of a resolved store does not depend on the order in
\* which the partitions are taken from the hash map: for the aggregate and
\* the target of a successful resolve_to_frame, every iteration order yields
\* the rows in the same order, also for a store with several frames and
\* neither timestamp nor identifier columns
C14_RowOrderDeterministic ==
    SlowPathResolved =>
        \A order \in iteration_orders(resolve_map_keys(last.before.point_data,
                                                       last.before.info)) :
            resolve_to_frame(last.before.point_data, last.before.info,
                             last.before.transform_tree, last.arg, order).point_data.rows
                = point_data.rows

(***************************************************************************)
(* Claims about the octree, checked under SpecOctree.                      *)
(***************************************************************************)
\* the calls of from_point_cloud that returned an octree
Returned(run) == run.result.status = "Ok"

proper_prefix(a, b) == Len(a) < Len(b) /\ SubSeq(b, 1, Len(a)) = a

\* the coordinates of a row as a point
point_of(row) == <<row["x"], row["y"], row["z"]>>

\* a point that a cell passed down lies in a plane through the centre of the
\* cell's cube: on a face that two of its sub-cubes share
on_shared_face(run) ==
    \E c \in run.cells, d \in run.cells :
        /\ proper_prefix(c.id, d.id)
        /\ \E i \in 1..height(d.point_data), k \in 1..3 :
              point_of(d.point_data.rows[i])[k] = c.bounding_cube.center[k]

RECURSIVE point_count(_)
point_count(cells) ==
    IF cells = {} THEN 0
    ELSE LET c == CHOOSE c \in cells : TRUE
         IN  height(c.point_data) + point_count(cells \ {c})

cells_with(run, row) ==
    {c \in run.cells : \E j \in 1..height(c.point_data) : c.point_data.rows[j] = row}

\* C15: whenever from_point_cloud returns an octree and no point that a cell
\* passed down lies on a face shared by two of the cell's sub-cubes, the
\* point counts of the cells sum to the number of input points and every
\* input point is in exactly one cell.
C15_OctreeConservation ==
    \A n \in DOMAIN octree :
        (Returned(octree[n]) /\ ~on_shared_face(octree[n])) =>
            /\ point_count(octree[n].cells) = height(octree[n].point_data)
            /\ \A i \in 1..height(octree[n].point_data) :
                  Cardinality(cells_with(octree[n], octree[n].point_data.rows[i])) = 1

same_arguments(a, b) ==
    /\ a.point_data = b.point_data
    /\ a.max_point_cloud_size = b.max_point_cloud_size
    /\ unwrap_or_default(a.seed_number) = unwrap_or_default(b.seed_number)

C17_ChildrenReceiveFewer ==
    \A n \in DOMAIN octree :
        \A call \in octree[n].calls :
            call.parent_received > octree[n].max_point_cloud_size =>
                call.received < call.parent_received

\* C18: from_point_cloud on a constructed cloud never panics, and the only
\* error that it returns is the sampler's InvalidNumber.
C18_ConstructionReturns ==
    \A n \in DOMAIN octree :
        /\ octree[n].result.status # "Panic"
        /\ octree[n].result.status = "Err" => octree[n].result.error = "InvalidNumber"

\* the cell of the octree with the identifier id
cells_at(run, id) == {c \in run.cells : c.id = id}

\* C19: an octree returned for max_size + 1 points has exactly two cells:
\* the root cell with max_size points and one child cell with the one
\* remaining point.
C19_OneRemainingPointOneChild ==
    \A n \in DOMAIN octree :
        (Returned(octree[n])
         /\ height(octree[n].point_data) = octree[n].max_point_cloud_size + 1) =>
            /\ Cardinality(octree[n].cells) = 2
            /\ \A c \in cells_at(octree[n], origin) :
                  height(c.point_data) = octree[n].max_point_cloud_size
            /\ \A c \in octree[n].cells \ cells_at(octree[n], origin) :
                  Len(c.id) = 1 /\ height(c.point_data) = 1

(***************************************************************************)
(* Claims about the filters, checked under SpecStore.                      *)
(***************************************************************************)
\* the rows of rows that qualify, in their order
RECURSIVE qualifying_rows(_, _, _)
qualifying_rows(rows, op, arg) ==
    IF rows = <<>> THEN <<>>
    ELSE IF \/ /\ op = "filter_by_bounds"
               /\ arg.min[1] <= Head(rows)["x"] /\ Head(rows)["x"] <= arg.max[1]
               /\ arg.min[2] <= Head(rows)["y"] /\ Head(rows)["y"] <= arg.max[2]
               /\ arg.min[3] <= Head(rows)["z"] /\ Head(rows)["z"] <= arg.max[3]
            \/ op = "filter_by_x_min" /\ Head(rows)["x"] >= arg
            \/ op = "filter_by_axis" /\ arg.is_min /\ Head(rows)[arg.column] >= arg.value
            \/ op = "filter_by_axis" /\ ~arg.is_min /\ Head(rows)[arg.column] <= arg.value
    THEN <<Head(rows)>> \o qualifying_rows(Tail(rows), op, arg)
    ELSE qualifying_rows(Tail(rows), op, arg)

\* a bounds or axis filter was applied to a store that has x, y and z
Filtered ==
    /\ last.op \in {"filter_by_bounds", "filter_by_x_min", "filter_by_axis"}
    /\ \A c \in {"x", "y", "z"} : contains_column(last.before.point_data, c)

\* C20: filter_by_bounds returns exactly the rows whose x, y and z are each
\* between min and max, the bounds included, and an axis filter exactly the
\* rows at or beyond its value; the rows kept are in their order and have all
\* their columns, and the result is None exactly when no row qualifies.
C20_FiltersInclusive ==
    Filtered =>
        /\ last.result \in {Ok, OkNone}
        /\ last.result = OkNone
              <=> qualifying_rows(last.before.point_data.rows, last.op, last.arg) = <<>>
        /\ last.result = Ok =>
              /\ point_data.rows
                    = qualifying_rows(last.before.point_data.rows, last.op, last.arg)
              /\ point_data.names = last.before.point_data.names
              /\ point_data.dtype = last.before.point_data.dtype

\* filter_by_bounds kept a row that is on the upper bound in each axis and
\* dropped another
C20_Witness ==
    /\ Filtered /\ last.op = "filter_by_bounds" /\ last.result = Ok
    /\ height(point_data) < height(last.before.point_data)
    /\ \E i \in 1..height(point_data) :
          /\ point_data.rows[i]["x"] = last.arg.max[1]
          /\ point_data.rows[i]["y"] = last.arg.max[2]
          /\ point_data.rows[i]["z"] = last.arg.max[3]

\* C21: a filter_by_row_indices or filter_by_boolean_mask call on a store
\* with rows, with row indices that are row positions, never reports
\* success with a store of zero rows: a selection that matches no row is
\* reported as None.
C21_EmptySelectionIsNone ==
    (/\ last.op \in {"filter_by_row_indices", "filter_by_boolean_mask"}
     /\ height(last.before.point_data) > 0
     /\ last.op = "filter_by_row_indices"
           => last.arg \subseteq 0..(height(last.before.point_data) - 1)
     /\ last.result = Ok)
        => height(point_data) > 0

\* C22: filter_by_beam_length fails with LowerBoundEqualsUpperBound when
\* min = max and with LowerBoundExceedsUpperBound when min > max, whatever
\* columns the store has; with min < max it fails with
\* NoSensorTranslationColumn unless the three sensor-translation columns are
\* there; a spherical range filter fails with NoSphericalRangeColumn when
\* the store has no such column.
C22_RangeFilterErrors ==
    /\ last.op = "filter_by_beam_length" =>
          /\ last.arg.min = last.arg.max => last.result = Err("LowerBoundEqualsUpperBound")
          /\ last.arg.min > last.arg.max => last.result = Err("LowerBoundExceedsUpperBound")
          /\ (last.arg.min < last.arg.max
               /\ ~contains_sensor_translation(last.before.point_data))
                 => last.result = Err("NoSensorTranslationColumn")
    /\ (last.op = "filter_by_spherical_range"
         /\ ~contains_column(last.before.point_data, "spherical_range"))
           => last.result = Err("NoSphericalRangeColumn")

\* equal bounds were rejected for a store that has one sensor-translation
\* column only
C22_Witness ==
    /\ last.op = "filter_by_beam_length" /\ last.arg.min = last.arg.max
    /\ contains_column(last.before.point_data, "sensor_translation_x")
    /\ ~contains_sensor_translation(last.before.point_data)
    /\ last.result = Err("LowerBoundEqualsUpperBound")

\* C23: add_sensor_translations on a store that has a sensor-translation
\* column fails with ColumnAlreadyExists, with a vector of another length
\* than the row count it fails with ShapeMismatch, and either way the store
\* is left as it was.
C23_AddNeverReplaces ==
    last.op = "add_sensor_translations" =>
        /\ (\E c \in SensorTranslationNames : contains_column(last.before.point_data, c))
              => (last.result.error = "ColumnAlreadyExists"
                  /\ point_data = last.before.point_data)
        /\ ((\A c \in SensorTranslationNames : ~contains_column(last.before.point_data, c))
             /\ last.arg # height(last.before.point_data))
              => (last.result = Err("ShapeMismatch") /\ point_data = last.before.point_data)

(***************************************************************************)
(* Claims about the bounding box, checked under SpecBox.                   *)
(***************************************************************************)
\* C24: AxisAlignedBoundingBox::new succeeds only if lower <= upper on every
\* axis and the corners differ; it fails with LowerBoundExceedsUpperBound
\* when lower exceeds upper on any axis, and with
\* LowerBoundEqualsUpperBound when the corners are equal.
C24_BoxCornersOrdered ==
    last.op = "AxisAlignedBoundingBox::new" =>
        /\ last.result = Ok =>
              /\ \A k \in 1..3 : columns.lower_bound[k] <= columns.upper_bound[k]
              /\ columns.lower_bound # columns.upper_bound
        /\ (\E k \in 1..3 : columns.lower_bound[k] > columns.upper_bound[k])
              => last.result = Err("LowerBoundExceedsUpperBound")
        /\ columns.lower_bound = columns.upper_bound
              => last.result = Err("LowerBoundEqualsUpperBound")

(***************************************************************************)
(* Further claims about the aggregate, checked under Spec.                 *)
(***************************************************************************)
\* the columns that resolve_to_frame is to leave as they are
KeptNames(df) ==
    SelectSeq(df.names,
              LAMBDA n : n \in {"id", "timestamp_sec", "timestamp_nanosec", "intensity"})

rows_like(df, kept) ==
    {j \in 1..height(df) : row_key(df.rows[j], KeptNames(df)) = kept}

\* C25: a successful resolve_to_frame off the fast path leaves the number of
\* rows as it was, and every input row is in the output exactly once with
\* its identifier, timestamps and intensity unchanged.
C25_ResolveConservesRows ==
    SlowPathResolved =>
        /\ height(point_data) = height(last.before.point_data)
        /\ KeptNames(point_data) = KeptNames(last.before.point_data)
        /\ \A i \in 1..height(last.before.point_data) :
              Cardinality(rows_like(point_data,
                  row_key(last.before.point_data.rows[i], KeptNames(last.before.point_data))))
              = Cardinality(rows_like(last.before.point_data,
                  row_key(last.before.point_data.rows[i], KeptNames(last.before.point_data))))

\* the cells below the cell c
children_of(run, c) == {d \in run.cells : proper_prefix(c.id, d.id)}

\* the smaller of two numbers
at_most(n, limit) == IF n <= limit THEN n ELSE limit

\* C26: in an octree built with max_size >= 1, each cell holds at least 1
\* and at most max_size points, a cell that has a child cell holds exactly
\* max_size points, the cell of a call holds max_size of the points the call
\* received, or all of them if they are fewer, and the split of the input
\* gives a retained and a remaining subset that are disjoint and together
\* are the rows received.
C26_CellSizes ==
    \A n \in DOMAIN octree :
        (Returned(octree[n]) /\ octree[n].max_point_cloud_size >= 1) =>
            /\ \A c \in octree[n].cells :
                  /\ height(c.point_data) >= 1
                  /\ height(c.point_data) <= octree[n].max_point_cloud_size
                  /\ children_of(octree[n], c) # {}
                        => height(c.point_data) = octree[n].max_point_cloud_size
            /\ \A call \in octree[n].calls :
                  \A c \in cells_at(octree[n], call.id) :
                      height(c.point_data)
                          = at_most(call.received, octree[n].max_point_cloud_size)
            /\ height(octree[n].point_data) > octree[n].max_point_cloud_size =>
                  /\ Range(seeded_divide(octree[n].point_data, octree[n].max_point_cloud_size,
                                         octree[n].seed_number).target.rows)
                      \cap Range(seeded_divide(octree[n].point_data,
                                               octree[n].max_point_cloud_size,
                                               octree[n].seed_number).remaining.rows) = {}
                  /\ Range(seeded_divide(octree[n].point_data, octree[n].max_point_cloud_size,
                                         octree[n].seed_number).target.rows)
                      \cup Range(seeded_divide(octree[n].point_data,
                                               octree[n].max_point_cloud_size,
                                               octree[n].seed_number).remaining.rows)
                      = Range(octree[n].point_data.rows)
                  /\ Len(seeded_divide(octree[n].point_data, octree[n].max_point_cloud_size,
                                       octree[n].seed_number).target.rows)
                      = octree[n].max_point_cloud_size

\* an octree with max_size 1 whose root cell has a child cell that has a
\* child cell
C26_Witness ==
    \E n \in DOMAIN octree :
        /\ Returned(octree[n]) /\ octree[n].max_point_cloud_size = 1
        /\ \E c \in octree[n].cells, d \in octree[n].cells :
              /\ c.id = origin /\ Len(d.id) = 1
              /\ children_of(octree[n], d) # {}

\* a point is in a cube, its faces included; twice the coordinates are
\* compared, so that nothing is rounded
inside(p, cube) ==
    \A k \in 1..3 : /\ 2 * cube.center[k] - cube.edge_length <= 2 * p[k]
                     /\ 2 * p[k] <= 2 * cube.center[k] + cube.edge_length

\* +1 or -1 for the half that an octant label selects on axis k
label_sign(octant, k) ==
    IF k = 1 THEN (IF axis_x_sign(octant) THEN 1 ELSE -1)
    ELSE IF k = 2 THEN (IF axis_y_sign(octant) THEN 1 ELSE -1)
    ELSE (IF axis_z_sign(octant) THEN 1 ELSE -1)

\* the largest of the extents of the points of df along the three axes
largest_extent(df) ==
    CHOOSE e \in {get_local_max(df)[k] - get_local_min(df)[k] : k \in 1..3} :
        \A k \in 1..3 : get_local_max(df)[k] - get_local_min(df)[k] <= e

\* C27: in every octree each point of a cell lies inside the cell's cube,
\* faces included; the root cube has the largest extent of the points as
\* its edge and contains every input point; the cube of a child cell has
\* half the edge of its parent's cube and its centre a quarter of the
\* parent's edge away on each axis, on the side its last label selects.
C27_PointsInsideCubes ==
    \A n \in DOMAIN octree :
        Returned(octree[n]) => \A c \in octree[n].cells :
              /\ \A i \in 1..height(c.point_data) :
                    inside(point_of(c.point_data.rows[i]), c.bounding_cube)
              /\ c.id = origin =>
                    /\ c.bounding_cube.edge_length = largest_extent(octree[n].point_data)
                    /\ \A i \in 1..height(octree[n].point_data) :
                          inside(point_of(octree[n].point_data.rows[i]), c.bounding_cube)
              /\ c.id # origin =>
                    \E p \in cells_at(octree[n], SubSeq(c.id, 1, Len(c.id) - 1)) :
                        /\ 2 * c.bounding_cube.edge_length = p.bounding_cube.edge_length
                        /\ \A k \in 1..3 :
                              4 * (c.bounding_cube.center[k] - p.bounding_cube.center[k])
                                = label_sign(c.id[Len(c.id)], k) * p.bounding_cube.edge_length

\* the signs that an octant label selects on the three axes
sign_triple(octant) == <<axis_x_sign(octant), axis_y_sign(octant), axis_z_sign(octant)>>

\* the sub-cubes of a cube, one for each octant label
sub_cubes(cube) ==
    {get_sub_cube(cube, axis_x_sign(o), axis_y_sign(o), axis_z_sign(o)) : o \in OctantIdentifier}

\* C28: the eight octant labels select eight different sign triples; in
\* every octree the eight sub-cubes of the cube of a cell are different,
\* and no point is dropped at a split: every row that the root cell passed
\* down is in a cell directly below the root, and every input row is in a
\* cell.
C28_NoPointDropped ==
    /\ \A a \in OctantIdentifier, b \in OctantIdentifier :
          a # b => sign_triple(a) # sign_triple(b)
    /\ \A n \in DOMAIN octree :
          Returned(octree[n]) =>
              /\ \A c \in octree[n].cells : Cardinality(sub_cubes(c.bounding_cube)) = 8
              /\ \A i \in 1..height(octree[n].point_data) :
                    cells_with(octree[n], octree[n].point_data.rows[i]) # {}
              /\ height(octree[n].point_data) > octree[n].max_point_cloud_size =>
                    \A row \in Range(seeded_divide(octree[n].point_data,
                                                   octree[n].max_point_cloud_size,
                                                   octree[n].seed_number).remaining.rows) :
                        \E c \in cells_with(octree[n], row) : Len(c.id) = 1

(***************************************************************************)
(* Further claims about the store, checked under SpecStore.                *)
(***************************************************************************)
\* the rows of df at the positions of row_indices, counted from 0, in the
\* order of df
RECURSIVE rows_at(_, _, _)
rows_at(df, row_indices, i) ==
    IF i > height(df) THEN <<>>
    ELSE IF (i - 1) \in row_indices THEN <<df.rows[i]>> \o rows_at(df, row_indices, i + 1)
    ELSE rows_at(df, row_indices, i + 1)

\* C29: filter_by_row_indices fails with NoRowIndices for an empty set of
\* indices and with RowIndexOutsideRange for a set with an index that is no
\* row position, the row count itself included; otherwise it returns the
\* rows at the indices in their order.
C29_RowIndicesChecked ==
    last.op = "filter_by_row_indices" =>
        IF last.arg = {} THEN last.result = Err("NoRowIndices")
        ELSE IF \E k \in last.arg : k >= height(last.before.point_data)
        THEN last.result = Err("RowIndexOutsideRange")
        ELSE /\ last.result = Ok
             /\ point_data.rows = rows_at(last.before.point_data, last.arg, 1)

(***************************************************************************)
(* Claims about the frame queries of the aggregate, checked under Spec.    *)
(***************************************************************************)
\* PointCloud::contains_frame_ids
contains_frame_ids(df, info_frame_id) ==
    info_frame_id # NoFrame \/ ~contains_frame_id_column(df)

\* PointCloud::get_distinct_frame_ids: the cloud-wide frame id, or else the
\* values of the frame_id column, or else None
PointCloud_get_distinct_frame_ids(df, info_frame_id) ==
    IF info_frame_id # NoFrame THEN Some({info_frame_id})
    ELSE IF contains_frame_id_column(df)
    THEN Some({df.rows[i]["frame_id"] : i \in 1..height(df)})
    ELSE None

\* C30: for a constructed aggregate contains_frame_ids is true exactly when
\* the aggregate has a cloud-wide frame id or a per-point frame_id column,
\* and exactly when get_distinct_frame_ids is Some; and a resolve_to_frame
\* fails with NoFrameIdDefinitions exactly when get_distinct_frame_ids was
\* None.
C30_FrameQueriesAgree ==
    /\ phase = "built" =>
          /\ contains_frame_ids(point_data, info)
                <=> (info # NoFrame \/ contains_frame_id_column(point_data))
          /\ contains_frame_ids(point_data, info)
                <=> PointCloud_get_distinct_frame_ids(point_data, info).some
    /\ Resolved =>
          (last.result = Err("NoFrameIdDefinitions")
             <=> ~PointCloud_get_distinct_frame_ids(last.before.point_data,
                                                    last.before.info).some)

=============================================================================
